---- MODULE Spec2Model ----
(***************************************************************************)
(* Chain-backed playlist persistence of the IPTV web client                *)
(* (web/src/lib/chain.ts and the useChainPlaylist hook).                   *)
(*                                                                         *)
(* Strings are sequences of Unicode code points, byte arrays are sequences *)
(* of 0..255, so that TextEncoder, toHex, hexToAscii, encodeURIComponent   *)
(* and decodeURIComponent are computed as the code computes them.          *)
(***************************************************************************)
EXTENDS Integers, Sequences, FiniteSets, TLC

(***************************************************************************)
(* Characters                                                              *)
(***************************************************************************)

\* The printable ASCII characters, code 32 (space) to 126 (tilde), in order
\* (the quote, the backslash and the backtick by name).
Ascii ==
  << " ", "!", "QUOTE", "#", "$", "%", "&", "'", "(", ")", "*", "+", ",", "-", ".", "/",
     "0", "1", "2", "3", "4", "5", "6", "7", "8", "9", ":", ";", "<", "=", ">", "?",
     "@", "A", "B", "C", "D", "E", "F", "G", "H", "I", "J", "K", "L", "M", "N", "O",
     "P", "Q", "R", "S", "T", "U", "V", "W", "X", "Y", "Z", "[", "BACKSLASH", "]", "^", "_",
     "BACKTICK", "a", "b", "c", "d", "e", "f", "g", "h", "i", "j", "k", "l", "m", "n", "o",
     "p", "q", "r", "s", "t", "u", "v", "w", "x", "y", "z", "{", "|", "}", "~" >>

\* Code point of a printable ASCII character.
Code(c) == 31 + (CHOOSE i \in 1..Len(Ascii) : Ascii[i] = c)

\* A string literal, written as a tuple of characters.
Str(t) == [i \in 1..Len(t) |-> Code(t[i])]

\* s.repeat(n) for a one-character string.
Repeat(c, n) == [i \in 1..n |-> Code(c)]

IsDigit(c) == c >= 48 /\ c <= 57
IsUpper(c) == c >= 65 /\ c <= 90
IsLower(c) == c >= 97 /\ c <= 122
IsAlnum(c) == IsDigit(c) \/ IsUpper(c) \/ IsLower(c)
IsHexDigit(c) == IsDigit(c) \/ (c >= 65 /\ c <= 70) \/ (c >= 97 /\ c <= 102)

\* Value of a hexadecimal digit character (either case).
HexVal(c) == IF IsDigit(c) THEN c - 48 ELSE IF c >= 97 THEN c - 87 ELSE c - 55

\* Number.prototype.toString(16) of one nibble: lower case.
HexLower(n) == IF n < 10 THEN 48 + n ELSE 87 + n
\* The upper-case hexadecimal digit encodeURIComponent emits.
HexUpper(n) == IF n < 10 THEN 48 + n ELSE 55 + n

\* String.prototype.indexOf, 1-based; 0 when absent (JavaScript: -1).
IndexOf(h, p) ==
  LET hits == {i \in 1..(Len(h) - Len(p) + 1) : \A j \in 1..Len(p) : h[i + j - 1] = p[j]}
  IN  IF hits = {} THEN 0 ELSE CHOOSE i \in hits : \A k \in hits : i <= k

\* String.prototype.lastIndexOf of one character, 1-based; 0 when absent.
LastIndexOf(s, c) ==
  LET hits == {i \in 1..Len(s) : s[i] = c}
  IN  IF hits = {} THEN 0 ELSE CHOOSE i \in hits : \A k \in hits : i >= k

\* s.slice(from) with a 1-based first index.
SliceFrom(s, from) == SubSeq(s, from, Len(s))

(***************************************************************************)
(* TextEncoder / toHex / hexToAscii                                        *)
(***************************************************************************)

\* UTF-8 bytes of one code point (TextEncoder.encode).
Utf8(cp) ==
  IF cp < 128 THEN << cp >>
  ELSE IF cp < 2048 THEN << 192 + (cp \div 64), 128 + (cp % 64) >>
  ELSE IF cp < 65536
    THEN << 224 + (cp \div 4096), 128 + ((cp \div 64) % 64), 128 + (cp % 64) >>
  ELSE << 240 + (cp \div 262144), 128 + ((cp \div 4096) % 64),
          128 + ((cp \div 64) % 64), 128 + (cp % 64) >>

RECURSIVE TextEncode(_)
TextEncode(s) == IF s = << >> THEN << >> ELSE Utf8(Head(s)) \o TextEncode(Tail(s))

\* toHex: two lower-case hexadecimal digits per byte.
toHex(bytes) ==
  [i \in 1..(2 * Len(bytes)) |->
     IF i % 2 = 1 THEN HexLower(bytes[(i + 1) \div 2] \div 16)
                  ELSE HexLower(bytes[i \div 2] % 16)]

\* parseInt(t, 16) of a slice of at most two characters: the longest prefix of
\* hexadecimal digits; -1 stands for NaN (no digit at the start).
ParseInt16(t) ==
  IF Len(t) = 0 \/ ~IsHexDigit(t[1]) THEN -1
  ELSE IF Len(t) = 1 \/ ~IsHexDigit(t[2]) THEN HexVal(t[1])
  ELSE 16 * HexVal(t[1]) + HexVal(t[2])

\* hexToAscii: decode two digits at a time and stop at the first code outside
\* 32..126.  NaN passes both comparisons and String.fromCharCode(NaN) is U+0000.
RECURSIVE hexToAscii(_)
hexToAscii(hex) ==
  IF Len(hex) = 0 THEN << >>
  ELSE LET code == ParseInt16(SubSeq(hex, 1, IF Len(hex) >= 2 THEN 2 ELSE 1))
           rest == IF Len(hex) >= 2 THEN SliceFrom(hex, 3) ELSE << >>
       IN  IF code = -1 THEN << 0 >> \o hexToAscii(rest)
           ELSE IF code < 32 \/ code > 126 THEN << >>
           ELSE << code >> \o hexToAscii(rest)

(***************************************************************************)
(* encodeURIComponent / decodeURIComponent (ECMAScript Encode / Decode)    *)
(***************************************************************************)

\* - _ . ! ~ * ' ( ) : the marks encodeURIComponent leaves alone beside alphanumerics.
UriMarks == {45, 95, 46, 33, 126, 42, 39, 40, 41}
IsUriUnreserved(c) == IsAlnum(c) \/ c \in UriMarks

PercentByte(b) == << 37, HexUpper(b \div 16), HexUpper(b % 16) >>

RECURSIVE PercentBytes(_)
PercentBytes(bytes) ==
  IF bytes = << >> THEN << >> ELSE PercentByte(Head(bytes)) \o PercentBytes(Tail(bytes))

\* A result is [ok |-> TRUE, val |-> v] or [ok |-> FALSE, err |-> name] (a throw).
Ok(v) == [ok |-> TRUE, val |-> v]
Throw(e) == [ok |-> FALSE, err |-> e]

IsSurrogate(cp) == cp >= 55296 /\ cp <= 57343

\* The name embedded as it is, with no escaping.
encodeURIComponentRaw(s) == Ok(s)

RECURSIVE encodeURIComponent(_)
encodeURIComponent(s) ==
  IF s = << >> THEN Ok(<< >>)
  ELSE IF IsSurrogate(Head(s)) THEN Throw("URIError")
  ELSE LET rest == encodeURIComponent(Tail(s))
           here == IF IsUriUnreserved(Head(s)) THEN << Head(s) >>
                   ELSE PercentBytes(Utf8(Head(s)))
       IN  IF rest.ok THEN Ok(here \o rest.val) ELSE rest

\* The byte of the escape "%XY" at position k of s, or -1 when s has no
\* well-formed escape there.
EscapeAt(s, k) ==
  IF k + 2 <= Len(s) /\ s[k] = 37 /\ IsHexDigit(s[k + 1]) /\ IsHexDigit(s[k + 2])
    THEN 16 * HexVal(s[k + 1]) + HexVal(s[k + 2])
    ELSE -1

\* Number of bytes of the UTF-8 sequence a lead byte announces; 0 when the byte
\* cannot lead one.
Utf8Length(b) ==
  IF b < 128 THEN 1
  ELSE IF b >= 194 /\ b <= 223 THEN 2
  ELSE IF b >= 224 /\ b <= 239 THEN 3
  ELSE IF b >= 240 /\ b <= 244 THEN 4
  ELSE 0

IsContinuation(b) == b >= 128 /\ b <= 191

\* The code point of n escapes starting at k, or -1 when they are not the UTF-8
\* encoding of a code point.
Utf8DecodeAt(s, k, n) ==
  LET b(i) == EscapeAt(s, k + 3 * (i - 1))
      cont == \A i \in 2..n : IsContinuation(b(i))
      cp == IF n = 2 THEN (b(1) - 192) * 64 + (b(2) - 128)
            ELSE IF n = 3 THEN (b(1) - 224) * 4096 + (b(2) - 128) * 64 + (b(3) - 128)
            ELSE (b(1) - 240) * 262144 + (b(2) - 128) * 4096
                 + (b(3) - 128) * 64 + (b(4) - 128)
      least == IF n = 2 THEN 128 ELSE IF n = 3 THEN 2048 ELSE 65536
  IN  IF ~cont \/ cp < least \/ cp > 1114111 \/ IsSurrogate(cp) THEN -1 ELSE cp

RECURSIVE DecodeFrom(_, _)
DecodeFrom(s, k) ==
  IF k > Len(s) THEN Ok(<< >>)
  ELSE IF s[k] # 37
    THEN LET rest == DecodeFrom(s, k + 1)
         IN  IF rest.ok THEN Ok(<< s[k] >> \o rest.val) ELSE rest
  ELSE LET b == EscapeAt(s, k)
           n == IF b = -1 THEN 0 ELSE Utf8Length(b)
           cp == IF n = 0 THEN -1 ELSE IF n = 1 THEN b ELSE Utf8DecodeAt(s, k, n)
       IN  IF cp = -1 THEN Throw("URIError")
           ELSE LET rest == DecodeFrom(s, k + 3 * n)
                IN  IF rest.ok THEN Ok(<< cp >> \o rest.val) ELSE rest

decodeURIComponent(s) == DecodeFrom(s, 1)

\* String.prototype.replace(/[^a-zA-Z0-9]/g, "").
StripNonAlnum(s) == SelectSeq(s, IsAlnum)


(***************************************************************************)
(* Pointer record codec                                                    *)
(***************************************************************************)

Null == [kind |-> "null"]

\* `IPTVCID:${address}:`
PointerPrefix(address) == Str(<< "I", "P", "T", "V", "C", "I", "D", ":" >>) \o address \o << 58 >>

\* The remark text submitPlaylistToChain publishes:
\* `IPTVCID:${address}:${encodeURIComponent(name)}:${cidString}`.
pointerStr(address, name, cidString) ==
  LET encodedName == encodeURIComponent(name)
  IN  IF encodedName.ok
        THEN Ok(PointerPrefix(address) \o encodedName.val \o << 58 >> \o cidString)
        ELSE encodedName

\* parseExtrinsicForPointer: Ok(pointer), Ok(Null) or the URIError that
\* decodeURIComponent throws.  One operator per stretch of the function, each
\* given the values the code has in hand at that point.

\* `if (!cid || !name) return null; return { cid, name, blockNumber }`
PointerOf(name, cid, blockNum) ==
  IF ~name.ok THEN name
  ELSE IF cid = << >> \/ name.val = << >> THEN Ok(Null)
  ELSE Ok([kind |-> "pointer", cid |-> cid, name |-> name.val, blockNumber |-> blockNum])

\* From lastColon on: rawName, decodeURIComponent, the CID stripped.
PointerAtColon(decoded, lastColon, blockNum) ==
  IF lastColon = 0 THEN Ok(Null)
  ELSE PointerOf(decodeURIComponent(SubSeq(decoded, 1, lastColon - 1)),
                 StripNonAlnum(SliceFrom(decoded, lastColon + 1)), blockNum)

\* From idx on: afterPrefix, decoded, lastColon.
PointerAtIndex(hexExtrinsic, prefixLen, idx, blockNum) ==
  IF idx = 0 THEN Ok(Null)
  ELSE PointerAtColon(hexToAscii(SliceFrom(hexExtrinsic, idx + prefixLen)),
                      LastIndexOf(hexToAscii(SliceFrom(hexExtrinsic, idx + prefixLen)), 58),
                      blockNum)

PrefixHex(address) == toHex(TextEncode(PointerPrefix(address)))

parseExtrinsicForPointer(hexExtrinsic, address, blockNum) ==
  PointerAtIndex(hexExtrinsic, Len(PrefixHex(address)),
                 IndexOf(hexExtrinsic, PrefixHex(address)), blockNum)

(***************************************************************************)
(* Accounts and extrinsics as the chain serves them                        *)
(***************************************************************************)

\* The development account of the tests (48 characters).
AddrA ==
  Str(<< "5", "G", "r", "w", "v", "a", "E", "F", "5", "z", "X", "b", "2", "6", "F", "z", "9",
     "r", "c", "Q", "p", "D", "W", "S", "5", "7", "C", "t", "E", "R", "H", "p", "N", "e",
     "h", "X", "C", "P", "c", "N", "o", "H", "G", "K", "u", "t", "Q", "Y" >>)
\* Another account (46 characters).
AddrB == << 53 >> \o Repeat("F", 45)

\* SCALE compact length of a byte vector (one, two or four byte mode).
CompactLen(n) ==
  IF n < 64 THEN << 4 * n >>
  ELSE IF n < 16384 THEN << (4 * n + 1) % 256, (4 * n + 1) \div 256 >>
  ELSE << (4 * n + 2) % 256, ((4 * n + 2) \div 256) % 256,
          ((4 * n + 2) \div 65536) % 256, (4 * n + 2) \div 16777216 >>

\* The bytes of a signed extrinsic whose last argument is a byte vector: the
\* version byte, the signer (the first bytes of its address stand for the
\* account id and signature), the call index, then the vector.
ExtrinsicBytes(signer, callIndex, data) ==
  << 132, 0 >> \o TextEncode(SubSeq(signer, 1, 2)) \o << 1, 0, 0, 0 >> \o callIndex
    \o CompactLen(Len(data)) \o data

\* An extrinsic as chain_getBlock returns it: "0x" and the hex of its bytes.
ExtrinsicHex(signer, callIndex, data) ==
  << 48, 120 >> \o toHex(ExtrinsicBytes(signer, callIndex, data))

\* An extrinsic of a block: who signed it, the call and its argument, and the
\* hex chain_getBlock returns for it.
Extrinsic(signer, call, callIndex, data) ==
  [signer |-> signer, call |-> call, data |-> data,
   hex |-> ExtrinsicHex(signer, callIndex, data)]

\* System.remark_with_event carrying a text.
RemarkExtrinsic(signer, text) ==
  Extrinsic(signer, "System.remark_with_event", << 0, 7 >>, TextEncode(text))


(***************************************************************************)
(* Program constants                                                       *)
(***************************************************************************)

SCAN_BLOCK_LIMIT == 500
BATCH_SIZE == 10
MAX_COMPRESSED_SIZE == 10 * 1024 * 1024
MAX_DECOMPRESSED_SIZE == 50 * 1024 * 1024
RPC_CALL_TIMEOUT_MS == 10000

Max(a, b) == IF a >= b THEN a ELSE b
Range(f) == {f[i] : i \in DOMAIN f}

(***************************************************************************)
(* URL sanitizer and playlist text                                         *)
(***************************************************************************)

\* A string is its sequence of code points.  null and undefined are written
\* as one-element sequences of a number no code point is, so that a nullable
\* string stays comparable with a string.
NullText == << -1 >>
Undefined == << -2 >>

\* "http:" and "https:"
ALLOWED_PROTOCOLS == {<< 104, 116, 116, 112, 58 >>, << 104, 116, 116, 112, 115, 58 >>}

ToLower(c) == IF IsUpper(c) THEN c + 32 ELSE c
IsC0OrSpace(c) == c >= 0 /\ c <= 32
IsTabOrNewline(c) == c \in {9, 10, 13}
IsSchemeChar(c) == IsAlnum(c) \/ c \in {43, 45, 46}
\* Code points a host may not hold: controls, space, DEL and " # % / : < > ?
\* @ [ \ ] ^ |
IsForbiddenHost(c) ==
  c <= 32 \/ c = 127 \/ c \in {34, 35, 37, 47, 58, 60, 62, 63, 64, 91, 92, 93, 94, 124}

\* s from the first to the last of the indices in keep, empty when none is.
Between(s, keep) ==
  IF keep = {} THEN << >>
  ELSE SubSeq(s, CHOOSE i \in keep : \A k \in keep : i <= k,
                 CHOOSE i \in keep : \A k \in keep : i >= k)

\* The URL parser's preprocessing: leading and trailing C0 controls and
\* spaces go, then every tab and newline.
UrlInput(s) ==
  SelectSeq(Between(s, {i \in 1..Len(s) : ~IsC0OrSpace(s[i])}),
            LAMBDA c : ~IsTabOrNewline(c))

\* Index of the colon that ends the scheme of s, 0 when s starts with none.
SchemeEnd(s) ==
  LET ends == {i \in 2..Len(s) : s[i] = 58 /\ \A j \in 1..(i - 1) : IsSchemeChar(s[j])}
  IN  IF s = << >> THEN 0
      ELSE IF ~(IsUpper(s[1]) \/ IsLower(s[1])) THEN 0
      ELSE IF ends = {} THEN 0
      ELSE CHOOSE i \in ends : TRUE

\* The schemes whose URLs must have a host.
HostSchemes == {<< 104, 116, 116, 112 >>, << 104, 116, 116, 112, 115 >>, << 119, 115 >>, << 119, 115, 115 >>, << 102, 116, 112 >>}

\* What follows the scheme of a URL that must have a host: slashes and
\* backslashes are skipped, the authority runs up to the next / \ ? or #,
\* credentials end at the last @, a port follows the first colon.
Authority(rest) ==
  LET from == {i \in 1..Len(rest) : rest[i] \notin {47, 92}}
      tail == IF from = {} THEN << >>
              ELSE SliceFrom(rest, CHOOSE i \in from : \A k \in from : i <= k)
      stop == {i \in 1..Len(tail) : tail[i] \in {47, 92, 63, 35}}
  IN  IF stop = {} THEN tail
      ELSE SubSeq(tail, 1, (CHOOSE i \in stop : \A k \in stop : i <= k) - 1)

HostPort(authority) == SliceFrom(authority, LastIndexOf(authority, 64) + 1)

HostOf(hostPort) ==
  LET colon == IndexOf(hostPort, << 58 >>)
  IN  IF colon = 0 THEN hostPort ELSE SubSeq(hostPort, 1, colon - 1)

PortOf(hostPort) ==
  LET colon == IndexOf(hostPort, << 58 >>)
  IN  IF colon = 0 THEN << >> ELSE SliceFrom(hostPort, colon + 1)

\* new URL(url) without a base: the protocol of the parsed URL, or a
\* TypeError.  A string without a scheme is no absolute URL; a scheme that
\* needs a host fails without one, with a forbidden code point in it or with
\* a port that is no number; any other scheme takes the rest as it is.
\* (IPv6 literals, the range of the port and the file scheme's host are not
\* told apart.)
NewURL(url) ==
  LET input == UrlInput(url)
      end == SchemeEnd(input)
      scheme == [i \in 1..(end - 1) |-> ToLower(input[i])]
      hostPort == HostPort(Authority(SliceFrom(input, end + 1)))
  IN  IF end = 0 THEN Throw("TypeError")
      ELSE IF scheme \notin HostSchemes THEN Ok([protocol |-> scheme \o << 58 >>])
      ELSE IF HostOf(hostPort) = << >> THEN Throw("TypeError")
      ELSE IF \E i \in 1..Len(HostOf(hostPort)) : IsForbiddenHost(HostOf(hostPort)[i])
        THEN Throw("TypeError")
      ELSE IF \E i \in 1..Len(PortOf(hostPort)) : ~IsDigit(PortOf(hostPort)[i])
        THEN Throw("TypeError")
      ELSE Ok([protocol |-> scheme \o << 58 >>])

\* sanitizeUrl with the protocol test left out.
sanitizeUrlAnyScheme(url) ==
  IF url = NullText \/ url = Undefined \/ url = << >> THEN NullText
  ELSE IF NewURL(url).ok THEN url ELSE NullText

sanitizeUrl(url) ==
  IF url = NullText \/ url = Undefined \/ url = << >> THEN NullText
  ELSE LET parsed == NewURL(url)
       IN  IF ~parsed.ok THEN NullText
           ELSE IF parsed.val.protocol \in ALLOWED_PROTOCOLS THEN url
           ELSE NullText

sanitizeStreamUrl(url) == sanitizeUrl(url)

\* simpleHash: 8 bytes of blake2b over the URL text, a function of the text.
simpleHash(text) == << "blake2b-8", text >>

\* White space as String.prototype.trim sees it.
IsJsSpace(c) ==
  \/ c \in {9, 10, 11, 12, 13, 32, 160, 5760, 8232, 8233, 8239, 8287, 12288, 65279}
  \/ (c >= 8192 /\ c <= 8202)

Trim(s) == Between(s, {i \in 1..Len(s) : ~IsJsSpace(s[i])})

StartsWith(s, p) == Len(s) >= Len(p) /\ SubSeq(s, 1, Len(p)) = p

\* content.split(/\r?\n/)
RECURSIVE SplitLines(_)
SplitLines(s) ==
  LET i == IndexOf(s, << 10 >>)
  IN  IF i = 0 THEN << s >>
      ELSE << IF i > 1 /\ s[i - 1] = 13 THEN SubSeq(s, 1, i - 2) ELSE SubSeq(s, 1, i - 1) >>
           \o SplitLines(SliceFrom(s, i + 1))

\* `#EXTM3U`, `#EXTINF:`, `group-title="`, `tvg-logo="`
ExtM3U == << 35, 69, 88, 84, 77, 51, 85 >>
ExtInf == << 35, 69, 88, 84, 73, 78, 70, 58 >>
GroupTitle == << 103, 114, 111, 117, 112, 45, 116, 105, 116, 108, 101, 61, 34 >>
TvgLogo == << 116, 118, 103, 45, 108, 111, 103, 111, 61, 34 >>

\* line.match(/key="([^"]*)"/): the text between the first key=" and the
\* next quote, NullText when there is no match.
MatchAttr(line, key) ==
  LET at == IndexOf(line, key)
      after == SliceFrom(line, at + Len(key))
      quote == IndexOf(after, << 34 >>)
  IN  IF at = 0 THEN NullText
      ELSE IF quote = 0 THEN NullText
      ELSE SubSeq(after, 1, quote - 1)

NoPending == [name |-> << >>, group |-> << >>, logo |-> NullText]

\* The metadata an #EXTINF line leaves pending.
ExtInfPending(line) ==
  LET groupMatch == MatchAttr(line, GroupTitle)
      commaIdx == LastIndexOf(line, 44)
  IN  [name |-> IF commaIdx # 0 THEN Trim(SliceFrom(line, commaIdx + 1)) ELSE << >>,
       group |-> IF groupMatch # NullText THEN groupMatch ELSE << >>,
       logo |-> MatchAttr(line, TvgLogo)]

\* parseM3U's URL line with the pending metadata kept after a rejected URL.
ParseUrlLineKeeping(line, pending, channels) ==
  LET sanitizedStreamUrl == sanitizeStreamUrl(line)
  IN  IF sanitizedStreamUrl = NullText
        THEN [pending |-> pending, channels |-> channels]
        ELSE [pending |-> NoPending,
              channels |-> Append(channels,
                [id |-> simpleHash(sanitizedStreamUrl),
                 name |-> IF pending.name # << >> THEN pending.name ELSE line,
                 group |-> pending.group,
                 logo_url |-> sanitizeUrl(pending.logo),
                 stream_url |-> sanitizedStreamUrl,
                 is_live |-> FALSE])]

\* parseM3U's URL line: a rejected URL adds nothing, an accepted one adds the
\* channel; either way the pending metadata is reset.
ParseUrlLine(line, pending, channels) ==
  LET sanitizedStreamUrl == sanitizeStreamUrl(line)
  IN  IF sanitizedStreamUrl = NullText
        THEN [pending |-> NoPending, channels |-> channels]
        ELSE [pending |-> NoPending,
              channels |-> Append(channels,
                [id |-> simpleHash(sanitizedStreamUrl),
                 name |-> IF pending.name # << >> THEN pending.name ELSE line,
                 group |-> pending.group,
                 logo_url |-> sanitizeUrl(pending.logo),
                 stream_url |-> sanitizedStreamUrl,
                 is_live |-> FALSE])]

RECURSIVE ParseLines(_, _, _)
ParseLines(lines, pending, channels) ==
  IF lines = << >> THEN channels
  ELSE LET line == Trim(Head(lines))
           rest == Tail(lines)
       IN  IF line = << >> \/ line = ExtM3U THEN ParseLines(rest, pending, channels)
           ELSE IF StartsWith(line, ExtInf)
             THEN ParseLines(rest, ExtInfPending(line), channels)
           ELSE IF StartsWith(line, << 35 >>) THEN ParseLines(rest, pending, channels)
           ELSE LET next == ParseUrlLine(line, pending, channels)
                IN  ParseLines(rest, next.pending, next.channels)

parseM3U(content) == ParseLines(SplitLines(content), NoPending, << >>)

\* `#EXTINF:-1`, ` group-title="`, ` tvg-logo="`
ExtInfHead == << 35, 69, 88, 84, 73, 78, 70, 58, 45, 49 >>

\* The metadata line serializeToM3U writes for a channel.
ExtInfLine(ch) ==
  ExtInfHead
  \o (IF ch.group # << >> THEN << 32 >> \o GroupTitle \o ch.group \o << 34 >> ELSE << >>)
  \o (IF ch.logo_url \notin {NullText, << >>}
        THEN << 32 >> \o TvgLogo \o ch.logo_url \o << 34 >> ELSE << >>)
  \o << 44 >> \o ch.name

\* serializeToM3U: the header, then a metadata line and a URL line per
\* channel, each line ended by a line feed.
RECURSIVE ChannelLines(_)
ChannelLines(channels) ==
  IF channels = << >> THEN << >>
  ELSE ExtInfLine(Head(channels)) \o << 10 >> \o Head(channels).stream_url \o << 10 >>
       \o ChannelLines(Tail(channels))

serializeToM3U(channels) == ExtM3U \o << 10 >> \o ChannelLines(channels)

\* compactifyChannels with the logo left out.
compactifyChannelsNoLogo(channels) ==
  [i \in 1..Len(channels) |->
     [n |-> channels[i].name, g |-> channels[i].group, l |-> NullText,
      s |-> channels[i].stream_url]]

\* compactifyChannels: the four fields that are stored.
compactifyChannels(channels) ==
  [i \in 1..Len(channels) |->
     [n |-> channels[i].name, g |-> channels[i].group, l |-> channels[i].logo_url,
      s |-> channels[i].stream_url]]

\* expandChannels with every record kept, the stored URLs taken as they are.
RECURSIVE expandChannelsUnsanitized(_)
expandChannelsUnsanitized(compact) ==
  IF compact = << >> THEN << >>
  ELSE LET c == Head(compact)
       IN  << [id |-> simpleHash(c.s), name |-> c.n, group |-> c.g, logo_url |-> c.l,
               stream_url |-> c.s, is_live |-> FALSE] >>
           \o expandChannelsUnsanitized(Tail(compact))

\* expandChannels: flatMap, no channel for a record whose stream URL the
\* sanitizer rejects.
RECURSIVE expandChannels(_)
expandChannels(compact) ==
  IF compact = << >> THEN << >>
  ELSE LET c == Head(compact)
           sanitizedStreamUrl == sanitizeStreamUrl(c.s)
       IN  (IF sanitizedStreamUrl = NullText THEN << >>
            ELSE << [id |-> simpleHash(sanitizedStreamUrl), name |-> c.n, group |-> c.g,
                     logo_url |-> sanitizeUrl(c.l), stream_url |-> sanitizedStreamUrl,
                     is_live |-> FALSE] >>)
           \o expandChannels(Tail(compact))

(***************************************************************************)
(* Blobs, content identifiers, decompression                               *)
(***************************************************************************)

\* A byte buffer a gateway may serve: its blake2b-256 digest (distinct buffers
\* have distinct digests), its length, whether it is a gzip stream, the
\* lengths of the chunks the decode stream yields and the text they hold.
Blob(digest, byteLength, gzip, chunks, text) ==
  [digest |-> digest, byteLength |-> byteLength, gzip |-> gzip, chunks |-> chunks,
   text |-> text]

\* CIDv1, raw codec, blake2b-256, base32: the fixed multibase / version /
\* codec / hash header, then the digest.
CidHeader == Str(<< "b", "a", "f", "k", "2", "b", "z", "a", "c", "e" >>)
IsBase32(c) == IsLower(c) \/ (c >= 50 /\ c <= 55)

\* computeCID(data).toString()
computeCID(data) == CidHeader \o << 97 + data.digest >>

\* CID.parse(s) succeeds: base32 multibase text of the length of a CID.
CidParses(s) ==
  /\ Len(s) = Len(CidHeader) + 1
  /\ s[1] = 98
  /\ \A i \in 1..Len(s) : IsBase32(s[i])

\* gzipDecompress(data, maxSize): read the chunks, throw once the running
\* total exceeds maxSize, or when the stream turns out not to be gzip.
RECURSIVE ReadChunks(_, _, _)
ReadChunks(chunks, totalLen, maxSize) ==
  IF chunks = << >> THEN Ok(totalLen)
  ELSE IF totalLen + Head(chunks) > maxSize THEN Throw("SizeLimit")
  ELSE ReadChunks(Tail(chunks), totalLen + Head(chunks), maxSize)

gzipDecompress(data, maxSize) ==
  LET read == ReadChunks(data.chunks, 0, maxSize)
  IN  IF ~read.ok THEN read
      ELSE IF ~data.gzip THEN Throw("TypeError")
      ELSE Ok([byteLength |-> read.val, text |-> data.text])


(***************************************************************************)
(* Inputs                                                                  *)
(***************************************************************************)

\* Playlist inputs as text.
UrlStream1 == << 104, 116, 116, 112, 115, 58, 47, 47, 101, 120, 97, 109, 112, 108, 101, 46, 99, 111,
       109, 47, 115, 116, 114, 101, 97, 109, 49, 46, 109, 51, 117, 56 >>
UrlStream2 == << 104, 116, 116, 112, 58, 47, 47, 101, 120, 97, 109, 112, 108, 101, 46, 99, 111, 109,
       47, 115, 116, 114, 101, 97, 109, 50, 46, 109, 51, 117, 56 >>
UrlStream3 == << 104, 116, 116, 112, 115, 58, 47, 47, 101, 120, 97, 109, 112, 108, 101, 46, 99, 111,
       109, 47, 115, 116, 114, 101, 97, 109, 51, 46, 109, 51, 117, 56 >>
UrlLogo == << 104, 116, 116, 112, 115, 58, 47, 47, 105, 109, 103, 46, 101, 120, 97, 109, 112, 108,
       101, 47, 98, 98, 99, 46, 112, 110, 103 >>

Channel(name, group, logo, stream) ==
  [id |-> simpleHash(stream), name |-> name, group |-> group, logo_url |-> logo,
   stream_url |-> stream, is_live |-> FALSE]

\* "BBC" in group "News" with a logo, "Two" without group or logo.
ChannelsInput ==
  << Channel(<< 66, 66, 67 >>, << 78, 101, 119, 115 >>, UrlLogo, UrlStream1),
     Channel(<< 84, 119, 111 >>, << >>, NullText, UrlStream2) >>

\* One channel whose name holds a line feed: "One", a line feed,
\* "http://example.com/x".
ChannelsTwoLineName ==
  << Channel(<< 79, 110, 101, 10, 104, 116, 116, 112, 58, 47, 47, 101, 120, 97, 109, 112, 108, 101,
       46, 99, 111, 109, 47, 120 >>, << >>, NullText, UrlStream3) >>

\* Playlist texts: saved playlists, one with an entry the sanitizer drops,
\* one with no acceptable entry, the playlist of no channels.
TextSaved == serializeToM3U(ChannelsInput)
TextTwoLineName == serializeToM3U(ChannelsTwoLineName)
\* #EXTM3U / #EXTINF:-1 tvg-logo="javascript:alert(1)",Bad / javascript:alert(2)
\* / (empty) / # comment / https://example.com/stream3.m3u8
TextMixed ==
  << 35, 69, 88, 84, 77, 51, 85, 10, 35, 69, 88, 84, 73, 78, 70, 58, 45, 49, 32, 116, 118,
       103, 45, 108, 111, 103, 111, 61, 34, 106, 97, 118, 97, 115, 99, 114, 105, 112, 116,
       58, 97, 108, 101, 114, 116, 40, 49, 41, 34, 44, 66, 97, 100, 10, 106, 97, 118, 97,
       115, 99, 114, 105, 112, 116, 58, 97, 108, 101, 114, 116, 40, 50, 41, 10, 10, 35, 32,
       99, 111, 109, 109, 101, 110, 116, 10, 104, 116, 116, 112, 115, 58, 47, 47, 101, 120,
       97, 109, 112, 108, 101, 46, 99, 111, 109, 47, 115, 116, 114, 101, 97, 109, 51, 46,
       109, 51, 117, 56, 10 >>
\* #EXTM3U / #EXTINF:-1,Bad / not a url / ftp://example.com/a
TextRejected ==
  << 35, 69, 88, 84, 77, 51, 85, 10, 35, 69, 88, 84, 73, 78, 70, 58, 45, 49, 44, 66, 97,
       100, 10, 110, 111, 116, 32, 97, 32, 117, 114, 108, 10, 102, 116, 112, 58, 47, 47,
       101, 120, 97, 109, 112, 108, 101, 46, 99, 111, 109, 47, 97, 10 >>
TextEmpty == serializeToM3U(<< >>)

PlaylistTexts == << TextSaved, TextMixed, TextRejected, TextEmpty, TextTwoLineName >>

\* gzipCompress of a playlist text: a gzip buffer of its own for every text,
\* inflating to the text in two chunks.
gzipCompress(text) ==
  LET n == CHOOSE i \in 1..Len(PlaylistTexts) : PlaylistTexts[i] = text
  IN  Blob(n, 20 + Len(text) \div 2, TRUE, << Len(text) - Len(text) \div 4, Len(text) \div 4 >>,
           text)

BlobSaved == gzipCompress(TextSaved)
BlobMixed == gzipCompress(TextMixed)
BlobRejected == gzipCompress(TextRejected)
\* Bytes that are no gzip stream.
BlobGarbage == Blob(Len(PlaylistTexts) + 1, 64, FALSE, << >>, << >>)
\* A small buffer that inflates beyond the decompressed limit.
BlobBomb == Blob(Len(PlaylistTexts) + 2, 2048, TRUE, << MAX_DECOMPRESSED_SIZE, 1 >>, TextSaved)
\* A buffer one byte longer than the compressed limit.
BlobOversize == Blob(Len(PlaylistTexts) + 3, MAX_COMPRESSED_SIZE + 1, TRUE, << 10 >>, TextSaved)
\* A buffer exactly at both limits.
BlobAtLimit ==
  Blob(Len(PlaylistTexts) + 4, MAX_COMPRESSED_SIZE, TRUE,
       << MAX_DECOMPRESSED_SIZE - 1, 1 >>, TextSaved)

BlobInputs ==
  {BlobSaved, BlobMixed, BlobRejected, BlobGarbage, BlobBomb, BlobOversize, BlobAtLimit}

AddressInputs ==
  {AddrA, AddrB, << >>, Str(<< "s", "h", "o", "r", "t" >>), Repeat("a", 45), Repeat("a", 49),
   Repeat("a", 50)}

NameOne == Str(<< "T", "V" >>)
NameTwo == Str(<< "M", "y", ":", "L", "i", "s", "t" >>)

\* A well-formed pointer record of owner for name and the CID of blob.
PointerText(owner, name, blob) == pointerStr(owner, name, computeCID(blob)).val

\* What one block may hold.
ExtListInputs ==
  { << >>,
    << RemarkExtrinsic(AddrA, PointerText(AddrA, NameOne, BlobSaved)) >>,
    << RemarkExtrinsic(AddrA, PointerText(AddrA, NameTwo, BlobAtLimit)) >>,
    << RemarkExtrinsic(AddrA, PointerText(AddrA, NameOne, BlobGarbage)) >>,
    << RemarkExtrinsic(AddrA, PointerText(AddrA, NameOne, BlobBomb)) >>,
    << RemarkExtrinsic(AddrA, PointerText(AddrA, NameOne, BlobRejected)) >>,
    \* two records of the owner in one block, the first signed by another account
    << RemarkExtrinsic(AddrB, PointerText(AddrA, NameTwo, BlobMixed)),
       RemarkExtrinsic(AddrA, PointerText(AddrA, NameOne, BlobSaved)) >>,
    \* a name that is no percent-encoding
    << RemarkExtrinsic(AddrA, PointerPrefix(AddrA) \o Str(<< "%", ":" >>) \o computeCID(BlobSaved)) >>,
    \* a record without the last delimiter, then one whose CID is no CID
    << RemarkExtrinsic(AddrA, PointerPrefix(AddrA) \o NameOne),
       RemarkExtrinsic(AddrA, PointerPrefix(AddrA) \o NameOne \o Str(<< ":", "z", "z", "9" >>)) >>,
    \* a record of another owner
    << RemarkExtrinsic(AddrB, PointerText(AddrB, NameOne, BlobSaved)) >> }

\* The head of the chains the scan is run on.
HeadNumber == 12

\* Chains of HeadNumber blocks with at most two blocks that hold extrinsics,
\* among the head, the block before it and the first block of the second batch.
ChainInputs ==
  LET slots == {HeadNumber, HeadNumber - 1, HeadNumber - BATCH_SIZE}
  IN  { [n \in 1..HeadNumber |-> IF n = hi THEN a ELSE IF n = lo THEN b ELSE << >>] :
          hi \in slots, lo \in slots, a \in ExtListInputs, b \in ExtListInputs }

(***************************************************************************)
(* Bounds of the model                                                     *)
(***************************************************************************)

\* Longest playlist name given to the pointer codec.
MaxNameLen == 3
\* Longest text after the owner prefix in a remark somebody else published.
MaxRawLen == 4
\* Highest block the chain grows to while submissions are modelled.
MaxHead == 5
\* Most chain-API clients made in one behaviour.
MaxClients == 3
\* Most chunks a decode stream yields, the longest chunk and the largest
\* size limit when gzipDecompress is run on its own.
MaxChunks == 3
MaxChunkLen == 3
MaxLimit == 4
\* Most calls made of one JSON-RPC caller, most sockets it opens, and the
\* time, in ms, up to which its clock is followed.
MaxCalls == 2
MaxSocks == 2
MaxNow == 10000
\* Most getBulletinApi calls and most resetBulletinApi calls followed when
\* the singleton is run on its own.
MaxGets == 4
MaxResets == 2
\* Records of a stored list, channels of a list and lines of a playlist text.
MaxRecords == 2
MaxLines == 3
\* How far above the scan limit the highest head of the scans run on empty
\* chains lies.
MaxOver == 3

(***************************************************************************)
(* State                                                                   *)
(***************************************************************************)

VARIABLES
  useDevKey,      \* USE_DEV_KEY, fixed when the module is loaded
  hosted,         \* isHostedEnvironment()
  bulletinClient, \* 0 (null) or the id of the cached client
  bulletinApi,    \* 0 (null) or the id of the client the cached api belongs to
  initPromise,    \* 0 (null) or the id of the client the promise resolves to
  aliceSigner,    \* the cached development signer, NoSigner when null
  clients,        \* [created |-> number of clients made, destroyed |-> set of ids]
  chain,          \* chain[n]: the extrinsics of block n, 1..head
  lpc,            \* where the running loadPlaylistFromChain call stands
  largs,          \* its arguments
  aborted,        \* signal.aborted
  lattempt,       \* 1 or 2: which scanForCIDPointer run
  scan,           \* the running scan and its JSON-RPC caller, with the requests sent
  lpointer,       \* the pointer the scan returned
  lbody,          \* the bytes handed to gzipDecompress
  lresult,        \* what the call settled with
  lhist,          \* what the call has done so far
  io,             \* clients made, sockets opened, fetches made and transactions
                  \* built and signed since the running call began
  spc,            \* where the running submitPlaylistToChain call stands
  sargs,          \* its arguments
  sapiTry,        \* 1 or 2: which getBulletinApi attempt
  sresolved,      \* resolvedSigner
  scompressed,    \* the compressed playlist
  sstore,         \* storeResult, the hash of the store transaction
  ssubs,          \* the subscriptions of the call, in the order they were made
  stxs,           \* the transactions the call signed and submitted, in order
  sresult,        \* what the call settled with
  stored,         \* buffers the chain has stored
  hpc,            \* where the running saveToChain call stands
  hargs,          \* its arguments
  chainStatus,    \* the hook's chainStatus
  chainError,     \* the hook's chainError
  cpc, cin, chex, cout,   \* the pointer record codec on its own
  gz,             \* a gzipDecompress call on its own: its arguments, reader and result
  rpc,            \* a JSON-RPC caller on its own: socket, id counter, pending map
  apiUse,         \* callers of getBulletinApi on their own: what each was handed
  conv,           \* a channel conversion on its own: its input and its output
  sync            \* the device-sync hook on its own: its state and the last message

NoSigner == [kind |-> "none"]
NoKey == [kind |-> "none"]

singletonVars == << bulletinClient, bulletinApi, initPromise, aliceSigner, clients >>
envVars == << useDevKey, hosted >>
loadVars == << lpc, largs, aborted, lattempt, scan, lpointer, lbody, lresult, lhist >>
submitVars == << spc, sargs, sapiTry, sresolved, scompressed, sstore, ssubs, stxs, sresult >>
hookVars == << hpc, hargs, chainStatus, chainError >>
codecVars == << cpc, cin, chex, cout >>

vars ==
  << envVars, chain, stored, singletonVars, loadVars, io, submitVars, hookVars, codecVars,
     gz, rpc, apiUse, conv, sync >>

\* What the steps of a load, of a submission and of the codec leave alone.
LoadFrame ==
  UNCHANGED << envVars, chain, stored, submitVars, hookVars, codecVars, gz, rpc, apiUse,
               conv, sync >>
SubmitFrame == UNCHANGED << envVars, loadVars, codecVars, gz, rpc, apiUse, conv, sync >>
CodecFrame ==
  UNCHANGED << envVars, chain, stored, singletonVars, loadVars, io, submitVars, hookVars,
               gz, rpc, apiUse, conv, sync >>
GzipFrame ==
  UNCHANGED << envVars, chain, stored, singletonVars, loadVars, io, submitVars, hookVars,
               codecVars, rpc, apiUse, conv, sync >>
RpcFrame ==
  UNCHANGED << envVars, chain, stored, singletonVars, loadVars, io, submitVars, hookVars,
               codecVars, gz, apiUse, conv, sync >>
ApiFrame ==
  UNCHANGED << envVars, chain, stored, loadVars, io, submitVars, hookVars, codecVars,
               gz, rpc, conv, sync >>
ConvFrame ==
  UNCHANGED << envVars, chain, stored, singletonVars, loadVars, io, submitVars, hookVars,
               codecVars, gz, rpc, apiUse, sync >>
SyncFrame ==
  UNCHANGED << envVars, chain, stored, singletonVars, loadVars, io, submitVars, hookVars,
               codecVars, gz, rpc, apiUse, conv >>

(***************************************************************************)
(* The chain-API singleton                                                 *)
(***************************************************************************)

NoApiUse == [pc |-> "off"]
NoConv == [pc |-> "off"]
NoSync == [pc |-> "off"]

\* resetBulletinApi(): destroy the client if there is one, forget everything.
resetBulletinApi ==
  /\ clients' = IF bulletinClient # 0
                  THEN [clients EXCEPT !.destroyed = @ \cup {bulletinClient}]
                  ELSE clients
  /\ bulletinClient' = 0
  /\ bulletinApi' = 0
  /\ initPromise' = 0
  /\ aliceSigner' = NoSigner

(***************************************************************************)
(* loadPlaylistFromChain and scanForCIDPointer                             *)
(***************************************************************************)

NoIo == [client |-> 0, ws |-> 0, fetch |-> 0, built |-> 0, signed |-> 0]
NoScan == [ws |-> "none", headNumber |-> 0, startBlock |-> 0, batchStart |-> 0,
           blockNums |-> << >>, log |-> << >>, closes |-> 0]
\* The signal has not been aborted; or where the call stood when it was: its
\* step, the scan, that scan's batch and the requests the scan had sent.
NoAbort == [at |-> "never"]
AbortAt(pc, attempt, sc) ==
  [at |-> pc, attempt |-> attempt, batchStart |-> sc.batchStart, sent |-> Len(sc.log)]

\* What a call has done so far: the scans that ended, the gateway responses and
\* the bodies received, the buffers handed to computeCID, to gzipDecompress
\* and (their text) to parseM3U, and where the caller's abort found it.
NoHist == [scans |-> << >>, responses |-> << >>, fetched |-> << >>, hashed |-> << >>,
           decompressed |-> << >>, parsed |-> << >>, abort |-> NoAbort]
NoBlob == [digest |-> -1]
NoResult == [kind |-> "none"]
Rejected(err) == [kind |-> "rejected", error |-> err]
NotFound == [kind |-> "resolved", found |-> FALSE]
Found(playlist, blockNumber, cid) ==
  [kind |-> "resolved", found |-> TRUE, playlist |-> playlist,
   block_number |-> blockNumber, cid |-> cid]

\* The address checked for presence only.
ValidAddressNonEmpty(address) == Len(address) # 0

ValidAddress(address) == ~(Len(address) = 0 \/ Len(address) < 46 \/ Len(address) > 48)

\* createJsonRpcCaller + the first rpcCall: ensureOpen() makes the WebSocket.
NewScan == [NoScan EXCEPT !.ws = "connecting"]

\* rpcCall.close(): `if (ws) { ws.close(); ws = null }`.
CloseScan(sc) ==
  IF sc.ws \in {"connecting", "open"}
    THEN [sc EXCEPT !.ws = "closed", !.closes = @ + 1]
    ELSE sc

\* A scan that ended, as the call remembers it.
Ended(sc, outcome) == [closes |-> sc.closes, ws |-> sc.ws, outcome |-> outcome]

\* The scan throws err, `finally` closes the caller, and the error goes to
\* the caller of loadPlaylistFromChain at once.
ScanThrowsOnce(err, sc) ==
  /\ lhist' = [lhist EXCEPT !.scans = Append(@, Ended(CloseScan(sc), err))]
  /\ scan' = CloseScan(sc)
  /\ lpc' = "done"
  /\ lresult' = Rejected(err)
  /\ UNCHANGED << singletonVars, lattempt, lpointer, lbody, io >>

\* The scan throws err past a caller that is left as it is.
ScanThrowsUnclosed(err, sc) ==
  /\ lhist' = [lhist EXCEPT !.scans = Append(@, Ended(sc, err))]
  /\ IF lattempt = 1
       THEN /\ resetBulletinApi
            /\ lattempt' = 2
            /\ scan' = NewScan
            /\ io' = [io EXCEPT !.ws = @ + 1]
            /\ lpc' = "connect"
            /\ UNCHANGED << lpointer, lbody, lresult >>
       ELSE /\ scan' = sc
            /\ lpc' = "done"
            /\ lresult' = Rejected(err)
            /\ UNCHANGED << singletonVars, lattempt, lpointer, lbody, io >>

\* The scan throws err: `finally` closes the caller; loadPlaylistFromChain
\* catches the first throw, resets the singleton and scans again, and lets
\* the second one reject the call.
ScanThrows(err, sc) ==
  LET closed == CloseScan(sc)
  IN  /\ lhist' = [lhist EXCEPT !.scans = Append(@, Ended(closed, err))]
      /\ IF lattempt = 1
           THEN /\ resetBulletinApi
                /\ lattempt' = 2
                /\ scan' = NewScan
                /\ io' = [io EXCEPT !.ws = @ + 1]
                /\ lpc' = "connect"
                /\ UNCHANGED << lpointer, lbody, lresult >>
           ELSE /\ scan' = closed
                /\ lpc' = "done"
                /\ lresult' = Rejected(err)
                /\ UNCHANGED << singletonVars, lattempt, lpointer, lbody, io >>

\* The scan returns ptr: the call goes on to validate the CID and to fetch.
ScanReturns(ptr, sc) ==
  LET closed == CloseScan(sc)
  IN  /\ lhist' = [lhist EXCEPT !.scans = Append(@, Ended(closed, "returned"))]
      /\ scan' = closed
      /\ lpointer' = ptr
      /\ UNCHANGED << singletonVars, lattempt, lbody >>
      /\ IF ptr = Null \/ ~CidParses(ptr.cid)
           THEN /\ lpc' = "done"
                /\ lresult' = NotFound
                /\ io' = io
           ELSE /\ lpc' = "fetch"
                /\ io' = [io EXCEPT !.fetch = @ + 1]
                /\ lresult' = lresult

\* The blocks of a batch, oldest first.
BlockNumsAscending(batchStart, batchEnd) ==
  [i \in 1..(batchStart - batchEnd) |-> batchEnd + i]

\* Block numbers batchStart, batchStart - 1, ..., batchEnd + 1.
BlockNums(batchStart, batchEnd) == [i \in 1..(batchStart - batchEnd) |-> batchStart + 1 - i]

Requests(method, params) == [i \in 1..Len(params) |-> [method |-> method, param |-> params[i]]]

\* The head of the batch loop with the signal not looked at.
EnterBatchUnchecked(sc, bs) ==
  IF bs > sc.startBlock
    THEN /\ scan' = [sc EXCEPT !.batchStart = bs,
                               !.blockNums = BlockNums(bs, Max(bs - BATCH_SIZE, sc.startBlock)),
                               !.log = @ \o Requests("chain_getBlockHash",
                                                     BlockNums(bs, Max(bs - BATCH_SIZE,
                                                                       sc.startBlock)))]
         /\ lpc' = "hashes"
         /\ UNCHANGED << singletonVars, lattempt, lpointer, lbody, lresult, lhist, io >>
    ELSE ScanReturns(Null, sc)

\* The head of the batch loop for batchStart = bs.
EnterBatch(sc, bs) ==
  IF bs > sc.startBlock
    THEN IF largs.signal /\ aborted
           THEN ScanThrows("AbortError", sc)
           ELSE LET nums == BlockNums(bs, Max(bs - BATCH_SIZE, sc.startBlock))
                IN  /\ scan' = [sc EXCEPT !.batchStart = bs, !.blockNums = nums,
                                          !.log = @ \o Requests("chain_getBlockHash", nums)]
                    /\ lpc' = "hashes"
                    /\ UNCHANGED << singletonVars, lattempt, lpointer, lbody, lresult, lhist, io >>
    ELSE ScanReturns(Null, sc)

\* The first pointer among the extrinsics of one block, in list order.
RECURSIVE ScanExtrinsics(_, _, _)
\* `if (pointer) return pointer`, else the next extrinsic of the block.
OrNextExtrinsic(pointer, extrinsics, address, blockNum) ==
  IF ~pointer.ok THEN pointer
  ELSE IF pointer.val # Null THEN pointer
  ELSE ScanExtrinsics(Tail(extrinsics), address, blockNum)

ScanExtrinsics(extrinsics, address, blockNum) ==
  IF extrinsics = << >> THEN Ok(Null)
  ELSE OrNextExtrinsic(parseExtrinsicForPointer(Head(extrinsics), address, blockNum),
                       extrinsics, address, blockNum)

\* The first pointer among the blocks of a batch, in the order of blockNums.
RECURSIVE ScanBatch(_, _, _)
\* The pointer found in a block, else the next block of the batch.
OrNextBlock(pointer, blockNums, blocks, address) ==
  IF ~pointer.ok THEN pointer
  ELSE IF pointer.val # Null THEN pointer
  ELSE ScanBatch(Tail(blockNums), Tail(blocks), address)

ScanBatch(blockNums, blocks, address) ==
  IF blockNums = << >> THEN Ok(Null)
  ELSE OrNextBlock(ScanExtrinsics(Head(blocks).block.extrinsics, address, Head(blockNums)),
                   blockNums, blocks, address)

\* chain_getBlockHash and chain_getBlock as the node answers them.
BlockHash(n) == [hash |-> n]
GetBlock(h) == [block |-> [extrinsics |-> [i \in 1..Len(chain[h.hash]) |-> chain[h.hash][i].hex]]]

\* loadPlaylistFromChain(address, signal) is called.
LoadStart(address, signal) ==
  /\ lpc = "idle"
  /\ largs' = [address |-> address, signal |-> signal]
  /\ aborted' = FALSE
  /\ lattempt' = 1
  /\ lhist' = NoHist
  /\ UNCHANGED << singletonVars, lpointer, lbody >>
  /\ IF ~ValidAddress(address)
       THEN /\ lpc' = "done"
            /\ lresult' = Rejected("Invalid SS58 address format")
            /\ scan' = NoScan
            /\ io' = NoIo
       ELSE /\ lpc' = "connect"
            /\ lresult' = NoResult
            /\ scan' = NewScan
            /\ io' = [NoIo EXCEPT !.ws = 1]
  /\ LoadFrame

\* The caller aborts the signal it passed.
Abort ==
  /\ lpc \notin {"idle", "done"}
  /\ largs.signal
  /\ ~aborted
  /\ aborted' = TRUE
  /\ lhist' = [lhist EXCEPT !.abort = AbortAt(lpc, lattempt, scan)]
  /\ UNCHANGED << singletonVars, lpc, largs, lattempt, scan, lpointer, lbody, lresult, io >>
  /\ LoadFrame

\* The socket opens and chain_getHeader is sent.
ScanOpen ==
  /\ lpc = "connect"
  /\ scan' = [scan EXCEPT !.ws = "open",
                          !.log = Append(@, [method |-> "chain_getHeader", param |-> 0])]
  /\ lpc' = "header"
  /\ UNCHANGED << singletonVars, largs, aborted, lattempt, lpointer, lbody, lresult, lhist, io >>
  /\ LoadFrame

\* The socket fails to open: the pending rpcCall rejects.
ConnectFail ==
  /\ lpc = "connect"
  /\ ScanThrows("WebSocket connection failed", scan)
  /\ UNCHANGED << largs, aborted >>
  /\ LoadFrame

\* An RPC call of the scan rejects (error response, timeout, socket closed).
RpcFail ==
  /\ lpc \in {"header", "hashes", "blocks"}
  /\ ScanThrows("RpcError", scan)
  /\ UNCHANGED << largs, aborted >>
  /\ LoadFrame

\* chain_getHeader answers and the scan goes down to the first block.
ScanHeaderUnbounded ==
  /\ lpc = "header"
  /\ EnterBatch([scan EXCEPT !.headNumber = Len(chain), !.startBlock = 0], Len(chain))
  /\ UNCHANGED << largs, aborted >>
  /\ LoadFrame

\* chain_getHeader answers: the scan range is fixed and the first batch begins.
ScanHeader ==
  /\ lpc = "header"
  /\ LET headNumber == Len(chain)
         sc == [scan EXCEPT !.headNumber = headNumber,
                            !.startBlock = Max(headNumber - SCAN_BLOCK_LIMIT, 0)]
     IN  EnterBatch(sc, headNumber)
  /\ UNCHANGED << largs, aborted >>
  /\ LoadFrame

\* Every chain_getBlockHash of the batch has answered: the chain_getBlock
\* requests go out.
ScanHashes ==
  /\ lpc = "hashes"
  /\ LET hashes == [i \in 1..Len(scan.blockNums) |-> BlockHash(scan.blockNums[i])]
     IN  scan' = [scan EXCEPT !.log = @ \o Requests("chain_getBlock", hashes)]
  /\ lpc' = "blocks"
  /\ UNCHANGED << singletonVars, largs, aborted, lattempt, lpointer, lbody, lresult, lhist, io >>
  /\ LoadFrame

\* The search of a batch leads to the next batch whatever it found.
AfterBatchExhaustive(pointer) ==
  IF ~pointer.ok THEN ScanThrows(pointer.err, scan)
  ELSE EnterBatch(scan, scan.batchStart - BATCH_SIZE)

\* What the search of a batch leads to.
AfterBatch(pointer) ==
  IF ~pointer.ok THEN ScanThrows(pointer.err, scan)
  ELSE IF pointer.val # Null THEN ScanReturns(pointer.val, scan)
  ELSE EnterBatch(scan, scan.batchStart - BATCH_SIZE)

\* Every chain_getBlock of the batch has answered: the blocks are searched,
\* then the pointer is returned, the error thrown, or the next batch begun.
ScanBlocks ==
  /\ lpc = "blocks"
  /\ AfterBatch(ScanBatch(scan.blockNums,
                          [i \in 1..Len(scan.blockNums) |->
                             GetBlock(BlockHash(scan.blockNums[i]))],
                          largs.address))
  /\ UNCHANGED << largs, aborted >>
  /\ LoadFrame

\* Content-Length as the code reads it: absent, or the number parseInt gives.
NoHeader == -1

\* fetch resolves with a response, and a status other than 2xx is thrown as
\* an error.
LoadFetchThrowing(ok, contentLength) ==
  /\ lpc = "fetch"
  /\ ~(largs.signal /\ aborted)
  /\ IF ~ok
       THEN /\ lpc' = "done"
            /\ lresult' = Rejected("Gateway error")
       ELSE IF contentLength # NoHeader /\ contentLength > MAX_COMPRESSED_SIZE
              THEN /\ lpc' = "done"
                   /\ lresult' = NotFound
              ELSE /\ lpc' = "body"
                   /\ lresult' = lresult
  /\ lhist' = [lhist EXCEPT !.responses =
                  Append(@, [ok |-> ok, contentLength |-> contentLength])]
  /\ UNCHANGED << singletonVars, largs, aborted, lattempt, scan, lpointer, lbody, io >>
  /\ LoadFrame

\* fetch resolves with a response: status, then the length hint, then the
\* body is asked for.
LoadFetch(ok, contentLength) ==
  /\ lpc = "fetch"
  /\ ~(largs.signal /\ aborted)
  /\ IF ~ok \/ (contentLength # NoHeader /\ contentLength > MAX_COMPRESSED_SIZE)
       THEN /\ lpc' = "done"
            /\ lresult' = NotFound
       ELSE /\ lpc' = "body"
            /\ lresult' = lresult
  /\ lhist' = [lhist EXCEPT !.responses =
                  Append(@, [ok |-> ok, contentLength |-> contentLength])]
  /\ UNCHANGED << singletonVars, largs, aborted, lattempt, scan, lpointer, lbody, io >>
  /\ LoadFrame

\* fetch or response.arrayBuffer() rejects: network error, the 15 s timeout
\* or the caller's abort.
LoadFetchFail ==
  /\ lpc \in {"fetch", "body"}
  /\ lpc' = "done"
  /\ lresult' = Rejected(IF largs.signal /\ aborted THEN "AbortError" ELSE "FetchError")
  /\ UNCHANGED << singletonVars, largs, aborted, lattempt, scan, lpointer, lbody, lhist, io >>
  /\ LoadFrame

\* The body has arrived and goes to decompression after the size check alone.
LoadBodyUnverified(compressed) ==
  /\ lpc = "body"
  /\ lhist' = [lhist EXCEPT !.fetched = Append(@, compressed)]
  /\ IF compressed.byteLength > MAX_COMPRESSED_SIZE
       THEN /\ lpc' = "done"
            /\ lresult' = NotFound
            /\ lbody' = lbody
       ELSE /\ lpc' = "decompress"
            /\ lresult' = lresult
            /\ lbody' = compressed
  /\ UNCHANGED << singletonVars, largs, aborted, lattempt, scan, lpointer, io >>
  /\ LoadFrame

\* The body has arrived and is trusted to be as long as Content-Length said:
\* CID check, then decompression starts.
LoadBodyUnmeasured(compressed) ==
  /\ lpc = "body"
  /\ lhist' = [lhist EXCEPT !.fetched = Append(@, compressed),
                            !.hashed = Append(@, compressed)]
  /\ IF computeCID(compressed) # lpointer.cid
       THEN /\ lpc' = "done"
            /\ lresult' = NotFound
            /\ lbody' = lbody
       ELSE /\ lpc' = "decompress"
            /\ lresult' = lresult
            /\ lbody' = compressed
  /\ UNCHANGED << singletonVars, largs, aborted, lattempt, scan, lpointer, io >>
  /\ LoadFrame

\* The body has arrived: size check, CID check, then decompression starts.
LoadBody(compressed) ==
  /\ lpc = "body"
  /\ lhist' = [lhist EXCEPT !.fetched = Append(@, compressed),
                            !.hashed = IF compressed.byteLength > MAX_COMPRESSED_SIZE
                                         THEN @ ELSE Append(@, compressed)]
  /\ IF compressed.byteLength > MAX_COMPRESSED_SIZE
       THEN /\ lpc' = "done"
            /\ lresult' = NotFound
            /\ lbody' = lbody
       ELSE IF computeCID(compressed) # lpointer.cid
              THEN /\ lpc' = "done"
                   /\ lresult' = NotFound
                   /\ lbody' = lbody
              ELSE /\ lpc' = "decompress"
                   /\ lresult' = lresult
                   /\ lbody' = compressed
  /\ UNCHANGED << singletonVars, largs, aborted, lattempt, scan, lpointer, io >>
  /\ LoadFrame

\* gzipDecompress settles; the text is parsed and the call returns.
LoadDecompress ==
  /\ lpc = "decompress"
  /\ LET decompressed == gzipDecompress(lbody, MAX_DECOMPRESSED_SIZE)
         channels == parseM3U(decompressed.val.text)
     IN  /\ lresult' = IF ~decompressed.ok THEN NotFound
                       ELSE IF Len(channels) = 0 THEN NotFound
                       ELSE Found([name |-> lpointer.name, channels |-> channels,
                                   source |-> "chain"],
                                  lpointer.blockNumber, lpointer.cid)
         /\ lhist' = [lhist EXCEPT !.decompressed = Append(@, lbody),
                                   !.parsed = IF decompressed.ok THEN Append(@, lbody) ELSE @]
  /\ lpc' = "done"
  /\ UNCHANGED << singletonVars, largs, aborted, lattempt, scan, lpointer, lbody, io >>
  /\ LoadFrame

\* The caller has the result; the next call may begin.
LoadReturn ==
  /\ lpc = "done"
  /\ lpc' = "idle"
  /\ largs' = [address |-> << >>, signal |-> FALSE]
  /\ aborted' = FALSE
  /\ lattempt' = 1
  /\ scan' = NoScan
  /\ lpointer' = Null
  /\ lbody' = NoBlob
  /\ lresult' = NoResult
  /\ lhist' = NoHist
  /\ io' = NoIo
  /\ UNCHANGED singletonVars
  /\ LoadFrame


(***************************************************************************)
(* submitPlaylistToChain                                                   *)
(***************************************************************************)

DevSigner == [kind |-> "dev", account |-> "//Alice"]
\* getHostSigner(publicKey): the host's signer for whatever it is given.
getHostSigner(publicKey) == [kind |-> "host", publicKey |-> publicKey]

\* The development signer handed out whatever the flag says.
getAliceSignerUnguarded == Ok(DevSigner)

\* getAliceSigner(): throws unless the development-key flag is set; else the
\* signer of the well-known development account (cached once derived).
getAliceSigner ==
  IF ~useDevKey THEN Throw("Dev key signing is disabled. Provide an external signer.")
  ELSE Ok(DevSigner)

\* `hosted && publicKey`: any object is truthy, only undefined is not.
Truthy(v) == v.kind # "none"

\* The host's signer preferred to the one the caller passed.
SignerBranchHostFirst(signer, isHosted, publicKey) ==
  IF isHosted /\ Truthy(publicKey) THEN "host"
  ELSE IF signer # NoSigner THEN "explicit"
  ELSE "dev"

\* `signer ?? (hosted && publicKey ? getHostSigner(publicKey) : await getAliceSigner())`:
\* which of the three branches the expression takes.
SignerBranch(signer, isHosted, publicKey) ==
  IF signer # NoSigner THEN "explicit"
  ELSE IF isHosted /\ Truthy(publicKey) THEN "host"
  ELSE "dev"

\* The account a signer signs for, as the extrinsic names it.
SignerAccount(signer) ==
  IF signer.kind = "dev" THEN AddrA
  ELSE IF signer.kind = "explicit" THEN signer.account
  ELSE AddrB

\* storeResult: event.txHash of the store transaction, a hex string.
NoTx == [txHash |-> << >>]
TxHash(n) == << 48, 120 >> \o toHex(<< n >>)
Resolved(v) == [kind |-> "resolved", value |-> v]

\* getBulletinApi() that makes a client on every call.
getBulletinApiUncached ==
  /\ clients' = [clients EXCEPT !.created = @ + 1]
  /\ bulletinClient' = clients.created + 1
  /\ bulletinApi' = clients.created + 1
  /\ initPromise' = clients.created + 1

\* getBulletinApi(): the cached pair, the promise in flight, or a new client.
getBulletinApi ==
  IF (bulletinClient # 0 /\ bulletinApi # 0) \/ initPromise # 0
    THEN UNCHANGED << bulletinClient, bulletinApi, initPromise, clients >>
    ELSE /\ clients' = [clients EXCEPT !.created = @ + 1]
         /\ bulletinClient' = clients.created + 1
         /\ bulletinApi' = clients.created + 1
         /\ initPromise' = clients.created + 1

\* `catch { resetBulletinApi(); apiResult = await getBulletinApi(); }`: the
\* old client is destroyed and a new one made in its place.
ResetAndGetBulletinApi ==
  /\ clients' = [created |-> clients.created + 1,
                 destroyed |-> IF bulletinClient # 0
                                 THEN clients.destroyed \cup {bulletinClient}
                                 ELSE clients.destroyed]
  /\ bulletinClient' = clients.created + 1
  /\ bulletinApi' = clients.created + 1
  /\ initPromise' = clients.created + 1
  /\ aliceSigner' = NoSigner

\* submitPlaylistToChain(address, _source, name, channels, publicKey, signer)
\* up to its first await.
SubmitCall(address, name, channels, publicKey, signer) ==
  /\ spc = "idle"
  /\ Len(chain) + 2 <= MaxHead
  /\ clients.created + (IF (bulletinClient # 0 /\ bulletinApi # 0) \/ initPromise # 0
                          THEN 0 ELSE 2) <= MaxClients
  /\ sargs' = [address |-> address, name |-> name, channels |-> channels,
               publicKey |-> publicKey, signer |-> signer]
  /\ sapiTry' = 1
  /\ UNCHANGED << sresolved, scompressed, sstore, aliceSigner >>
  /\ ssubs' = << >>
  /\ stxs' = << >>
  /\ IF ~ValidAddress(address)
       THEN /\ spc' = "done"
            /\ sresult' = Rejected("Invalid SS58 address format")
            /\ io' = NoIo
            /\ UNCHANGED << bulletinClient, bulletinApi, initPromise, clients >>
       ELSE /\ spc' = "api"
            /\ sresult' = NoResult
            /\ io' = [NoIo EXCEPT !.client = IF (bulletinClient # 0 /\ bulletinApi # 0)
                                                  \/ initPromise # 0 THEN 0 ELSE 1]
            /\ getBulletinApi

\* A direct call of submitPlaylistToChain.
SubmitStart(address, name, channels, publicKey, signer) ==
  /\ hpc = "idle"
  /\ SubmitCall(address, name, channels, publicKey, signer)
  /\ UNCHANGED << hookVars, chain, stored >>
  /\ SubmitFrame


\* A subscription of signSubmitAndWatch and how the wait on it settled:
\* "pending", "ok" or "failed" (finalized) or "error" (the stream errored).
Subscribed == [active |-> TRUE, settled |-> "pending"]

\* signSubmitAndWatch(signer).subscribe(...) of a transaction.
Submitted(call, wrapped, signer, data) ==
  [call |-> call, wrapped |-> wrapped, signer |-> signer, data |-> data]

\* From the resolved signer to the store transaction: serialize, compress,
\* compute the CID, build the store call, wrap it in Sudo unless hosted with a
\* public key, sign and submit.
SubmitStore(resolved) ==
  LET compressed == gzipCompress(serializeToM3U(sargs.channels))
      direct == hosted /\ Truthy(sargs.publicKey)
  IN  /\ sresolved' = resolved
      /\ scompressed' = compressed
      /\ io' = [io EXCEPT !.built = @ + (IF direct THEN 1 ELSE 2), !.signed = @ + 1]
      /\ stxs' = Append(stxs, Submitted("TransactionStorage.store", ~direct, resolved, compressed))
      /\ ssubs' = Append(ssubs, Subscribed)
      /\ spc' = "store"
      /\ UNCHANGED << sargs, sapiTry, sstore, sresult >>

\* getBulletinApi has settled.  If it rejected, reset and try once more; if
\* it resolved, resolve the signer and go on.
SubmitApi(apiOk) ==
  /\ spc = "api"
  /\ IF ~apiOk
       THEN /\ io.client > 0
            /\ IF sapiTry = 1
                 THEN /\ ResetAndGetBulletinApi
                      /\ sapiTry' = 2
                      /\ spc' = "api"
                      /\ sresult' = sresult
                      /\ io' = [io EXCEPT !.client = @ + 1]
                 ELSE /\ spc' = "done"
                      /\ sresult' = Rejected("ApiError")
                      /\ UNCHANGED << singletonVars, sapiTry, io >>
            /\ UNCHANGED << sargs, sresolved, scompressed, sstore, ssubs, stxs >>
       ELSE LET branch == SignerBranch(sargs.signer, hosted, sargs.publicKey)
            IN  /\ UNCHANGED singletonVars
                /\ IF branch = "explicit" THEN SubmitStore(sargs.signer)
                   ELSE IF branch = "host" THEN SubmitStore(getHostSigner(sargs.publicKey))
                   ELSE IF ~getAliceSigner.ok
                     THEN /\ spc' = "done"
                          /\ sresult' = Rejected(getAliceSigner.err)
                          /\ UNCHANGED << sargs, sapiTry, sresolved, scompressed, sstore,
                                          ssubs, stxs, io >>
                   ELSE /\ spc' = "signer"
                        /\ UNCHANGED << sargs, sapiTry, sresolved, scompressed, sstore,
                                        ssubs, stxs, sresult, io >>
  /\ UNCHANGED << hookVars, chain, stored >>
  /\ SubmitFrame

\* getAliceSigner() past its guard: the cached signer, or a newly derived one
\* that is cached.
SubmitDevSigner ==
  /\ spc = "signer"
  /\ aliceSigner' = getAliceSigner.val
  /\ UNCHANGED << bulletinClient, bulletinApi, initPromise, clients >>
  /\ SubmitStore(getAliceSigner.val)
  /\ UNCHANGED << hookVars, chain, stored >>
  /\ SubmitFrame

\* A finalized transaction is in a block of the chain.
Include(ext) == Append(chain, << ext >>)

\* The subscription released on finalization only.
UnsubscribeOnFinalized(subs, how) ==
  [subs EXCEPT ![Len(subs)] = [active |-> how = "error", settled |-> how]]

\* `sub.unsubscribe()` and then resolve or reject, in the handler of the
\* subscription made last.
Unsubscribe(subs, how) ==
  [subs EXCEPT ![Len(subs)] = [active |-> FALSE, settled |-> how]]

\* The store transaction is finalized and the call goes on to the pointer
\* remark whatever the event says.
StoreFinalizedUnchecked(ok) ==
  /\ spc = "store"
  /\ chain' = Include(
                Extrinsic(SignerAccount(sresolved), "TransactionStorage.store", << 40, 0 >>,
                          << 31, 139, scompressed.digest >>))
  /\ stored' = IF ok THEN stored \cup {scompressed} ELSE stored
  /\ UNCHANGED << sargs, sapiTry, sresolved, scompressed, singletonVars, hookVars >>
  /\ sstore' = [txHash |-> TxHash(Len(chain) + 1)]
  /\ spc' = "remark"
  /\ sresult' = sresult
  /\ ssubs' = Append(Unsubscribe(ssubs, IF ok THEN "ok" ELSE "failed"), Subscribed)
  /\ stxs' = Append(stxs, Submitted("System.remark_with_event", FALSE, sresolved,
                                    pointerStr(sargs.address, sargs.name,
                                               computeCID(scompressed)).val))
  /\ io' = [io EXCEPT !.built = @ + 1, !.signed = @ + 1]
  /\ SubmitFrame

\* The store transaction is finalized.
StoreFinalized(ok) ==
  /\ spc = "store"
  /\ chain' = Include(
                Extrinsic(SignerAccount(sresolved), "TransactionStorage.store", << 40, 0 >>,
                          << 31, 139, scompressed.digest >>))
  /\ stored' = IF ok THEN stored \cup {scompressed} ELSE stored
  /\ UNCHANGED << sargs, sapiTry, sresolved, scompressed, singletonVars, hookVars >>
  /\ IF ~ok
       THEN /\ spc' = "done"
            /\ sresult' = Rejected("TransactionStorage.store failed on-chain")
            /\ ssubs' = Unsubscribe(ssubs, "failed")
            /\ UNCHANGED << sstore, stxs, io >>
       ELSE LET pointer == pointerStr(sargs.address, sargs.name, computeCID(scompressed))
            IN  /\ sstore' = [txHash |-> TxHash(Len(chain) + 1)]
                /\ IF ~pointer.ok
                     THEN /\ spc' = "done"
                          /\ sresult' = Rejected(pointer.err)
                          /\ ssubs' = Unsubscribe(ssubs, "ok")
                          /\ UNCHANGED << stxs, io >>
                     ELSE /\ spc' = "remark"
                          /\ sresult' = sresult
                          /\ ssubs' = Append(Unsubscribe(ssubs, "ok"), Subscribed)
                          /\ stxs' = Append(stxs, Submitted("System.remark_with_event", FALSE,
                                                            sresolved, pointer.val))
                          /\ io' = [io EXCEPT !.built = @ + 1, !.signed = @ + 1]
  /\ SubmitFrame

\* The pointer remark transaction is finalized and the call resolves
\* whatever the event says.
RemarkFinalizedUnchecked(ok) ==
  /\ spc = "remark"
  /\ ssubs' = Unsubscribe(ssubs, IF ok THEN "ok" ELSE "failed")
  /\ chain' = Include(RemarkExtrinsic(SignerAccount(sresolved), stxs[Len(stxs)].data))
  /\ spc' = "done"
  /\ sresult' = Resolved(sstore.txHash \o << 58 >> \o computeCID(scompressed))
  /\ UNCHANGED << sargs, sapiTry, sresolved, scompressed, sstore, stxs, io, stored,
                  singletonVars, hookVars >>
  /\ SubmitFrame

\* The pointer remark transaction is finalized.
RemarkFinalized(ok) ==
  /\ spc = "remark"
  /\ ssubs' = Unsubscribe(ssubs, IF ok THEN "ok" ELSE "failed")
  /\ chain' = Include(RemarkExtrinsic(SignerAccount(sresolved), stxs[Len(stxs)].data))
  /\ spc' = "done"
  /\ sresult' = IF ok THEN Resolved(sstore.txHash \o << 58 >> \o computeCID(scompressed))
                ELSE Rejected("CID pointer remark failed on-chain")
  /\ UNCHANGED << sargs, sapiTry, sresolved, scompressed, sstore, stxs, io, stored,
                  singletonVars, hookVars >>
  /\ SubmitFrame

\* The event stream of the transaction being watched errors.
TxError ==
  /\ spc \in {"store", "remark"}
  /\ ssubs' = Unsubscribe(ssubs, "error")
  /\ spc' = "done"
  /\ sresult' = Rejected("TxError")
  /\ UNCHANGED << sargs, sapiTry, sresolved, scompressed, sstore, stxs, io, stored, chain,
                  singletonVars, hookVars >>
  /\ SubmitFrame

NoArgs == [address |-> << >>, name |-> << >>, channels |-> << >>,
           publicKey |-> NoKey, signer |-> NoSigner]

ClearSubmit ==
  /\ spc' = "idle"
  /\ sargs' = NoArgs
  /\ sapiTry' = 1
  /\ sresolved' = NoSigner
  /\ scompressed' = NoBlob
  /\ sstore' = NoTx
  /\ ssubs' = << >>
  /\ stxs' = << >>
  /\ sresult' = NoResult
  /\ io' = NoIo

\* The direct caller has the result.
SubmitReturn ==
  /\ spc = "done"
  /\ hpc = "idle"
  /\ ClearSubmit
  /\ UNCHANGED << singletonVars, hookVars, chain, stored >>
  /\ SubmitFrame

(***************************************************************************)
(* useChainPlaylist.saveToChain                                            *)
(***************************************************************************)

\* saveToChain(address, source, playlist, signer): status "submitting", then
\* submitPlaylistToChain(address, source, playlist.name, playlist.channels, signer).
SaveToChain(address, playlist, signer) ==
  /\ hpc = "idle"
  /\ hpc' = "awaiting"
  /\ hargs' = [address |-> address, playlist |-> playlist, signer |-> signer]
  /\ chainError' = "null"
  /\ chainStatus' = "submitting"
  /\ SubmitCall(address, playlist.name, playlist.channels, signer, NoSigner)
  /\ UNCHANGED << chain, stored >>
  /\ SubmitFrame

\* The awaited submission has settled: "confirmed", or "error" and its message.
SaveSettled ==
  /\ hpc = "awaiting"
  /\ spc = "done"
  /\ hpc' = "idle"
  /\ hargs' = [address |-> << >>, playlist |-> [name |-> << >>, channels |-> << >>],
               signer |-> NoSigner]
  /\ chainStatus' = IF sresult.kind = "resolved" THEN "confirmed" ELSE "error"
  /\ chainError' = IF sresult.kind = "resolved" THEN "null" ELSE sresult.error
  /\ ClearSubmit
  /\ UNCHANGED << singletonVars, chain, stored >>
  /\ SubmitFrame



(***************************************************************************)
(* The chain-API singleton under concurrent callers                        *)
(***************************************************************************)

\* No caller yet, no reset yet.
NewApiUse == [pc |-> "on", got |-> << >>, resets |-> 0]

\* What a caller holds: the promise getBulletinApi handed back, which is
\* fulfilled with the client/api pair made for it, the resets that had
\* happened before the call, and whether the caller's await has gone on.
Handed(client, api, epoch) ==
  [client |-> client, api |-> api, epoch |-> epoch, awaited |-> FALSE]

\* A caller calls getBulletinApi().
ApiGet ==
  /\ apiUse.pc = "on"
  /\ Len(apiUse.got) < MaxGets
  /\ clients.created < MaxClients \/ initPromise # 0
  /\ getBulletinApi
  /\ aliceSigner' = aliceSigner
  /\ apiUse' = [apiUse EXCEPT !.got = Append(@, Handed(bulletinClient', bulletinApi',
                                                       apiUse.resets))]
  /\ ApiFrame

\* The await of caller i goes on with the pair.
ApiAwaited(i) ==
  /\ apiUse.pc = "on"
  /\ i \in 1..Len(apiUse.got)
  /\ ~apiUse.got[i].awaited
  /\ apiUse' = [apiUse EXCEPT !.got[i].awaited = TRUE]
  /\ UNCHANGED singletonVars
  /\ ApiFrame

\* Someone calls resetBulletinApi().
ApiReset ==
  /\ apiUse.pc = "on"
  /\ apiUse.resets < MaxResets
  /\ resetBulletinApi
  /\ apiUse' = [apiUse EXCEPT !.resets = @ + 1]
  /\ ApiFrame

(***************************************************************************)
(* gzipDecompress, read by read                                            *)
(***************************************************************************)

NoGzip == [pc |-> "off"]

\* gzipDecompress(data, maxSize) up to its first reader.read().
GzipCall(data, maxSize) ==
  [pc |-> "reading", data |-> data, maxSize |-> maxSize, reads |-> 0, totalLen |-> 0,
   chunks |-> << >>, cancelled |-> FALSE, out |-> Ok(Null)]

\* The limit looked at before the chunk is counted.
GzipChunkLate(g, value) ==
  IF g.totalLen > g.maxSize
    THEN [g EXCEPT !.pc = "done", !.reads = @ + 1, !.totalLen = @ + value,
                   !.cancelled = TRUE, !.out = Throw("SizeLimit")]
    ELSE [g EXCEPT !.reads = @ + 1, !.totalLen = @ + value, !.chunks = Append(@, value)]

\* `totalLen += value.length; if (totalLen > maxSize) { cancel; throw }` else
\* `chunks.push(value)`, for the chunk a read has delivered.
GzipChunk(g, value) ==
  IF g.totalLen + value > g.maxSize
    THEN [g EXCEPT !.pc = "done", !.reads = @ + 1, !.totalLen = @ + value,
                   !.cancelled = TRUE, !.out = Throw("SizeLimit")]
    ELSE [g EXCEPT !.reads = @ + 1, !.totalLen = @ + value, !.chunks = Append(@, value)]

\* One reader.read() settles: the next chunk, the end of the stream, or the
\* error of a stream that is no gzip stream.
GzipRead ==
  /\ gz.pc = "reading"
  /\ gz' = IF gz.reads < Len(gz.data.chunks)
             THEN GzipChunk(gz, gz.data.chunks[gz.reads + 1])
           ELSE IF ~gz.data.gzip
             THEN [gz EXCEPT !.pc = "done", !.out = Throw("TypeError")]
           ELSE [gz EXCEPT !.pc = "done",
                           !.out = Ok([byteLength |-> gz.totalLen, text |-> gz.data.text])]
  /\ GzipFrame

(***************************************************************************)
(* createJsonRpcCaller: one caller, its sockets, its calls and its timers  *)
(***************************************************************************)

NoRpc == [pc |-> "off"]

\* The caller as createJsonRpcCaller returns it.  ws and openPromise are 0
\* for null, else the socket (and the promise made with it); pending holds
\* the ids of the map; calls and socks are everything ever made; now is the
\* clock the timers run on; dropped tells that a message was dropped while
\* the map held entries, fault is the exception that escaped a handler.
NewCaller ==
  [pc |-> "on", idCounter |-> 1, ws |-> 0, openPromise |-> 0, pending |-> {},
   socks |-> << >>, calls |-> << >>, sent |-> << >>, now |-> 0,
   dropped |-> FALSE, fault |-> "none"]

NewSocket == [state |-> "connecting", promise |-> "pending"]
NoOutcome == [kind |-> "none"]
NewCall(method, promise) ==
  [method |-> method, waits |-> promise, sync |-> FALSE, stage |-> "opening", id |-> 0,
   timer |-> "none", deadline |-> 0, outcome |-> NoOutcome]

Result(id) == [kind |-> "result", id |-> id]
RpcError(message) == [kind |-> "error", message |-> message]
\* `RPC call ${method} timed out after ${RPC_CALL_TIMEOUT_MS}ms`
TimeoutError(method, ms) == [kind |-> "timeout", method |-> method, ms |-> ms]

\* ensureOpen(): the caller afterwards and the promise handed back, 0 for
\* Promise.resolve().
ensureOpen(r) ==
  IF r.ws # 0 /\ r.socks[r.ws].state = "open" THEN [rpc |-> r, promise |-> 0]
  ELSE IF r.openPromise # 0 THEN [rpc |-> r, promise |-> r.openPromise]
  ELSE [rpc |-> [r EXCEPT !.socks = Append(@, NewSocket),
                          !.ws = Len(r.socks) + 1,
                          !.openPromise = Len(r.socks) + 1],
        promise |-> Len(r.socks) + 1]

\* The call whose id is id.
CallOf(r, id) == CHOOSE c \in 1..Len(r.calls) : r.calls[c].id = id

\* resolve or reject of a call's promise: the first one counts.
Settle(call, stage, outcome) ==
  IF call.stage = "pending" THEN [call EXCEPT !.stage = stage, !.outcome = outcome]
  ELSE call

\* `await ensureOpen()` of call c can go on: the promise it waits for is
\* settled.  Socket events and timers run only when no call can go on.
Ready(r, c) ==
  /\ r.calls[c].stage = "opening"
  /\ r.calls[c].waits # 0 => r.socks[r.calls[c].waits].promise # "pending"
Quiet(r) == \A c \in 1..Len(r.calls) : ~Ready(r, c)
\* The code that holds the caller can run: no call is about to go on, or
\* only calls it has just made, whose `await` was of a settled promise
\* (sync); a call that a socket event has made ready goes on before any
\* other code runs.
CallerRuns(r) == \A c \in 1..Len(r.calls) : Ready(r, c) => r.calls[c].sync

\* ws.send(...): a null ws and a socket still connecting throw; a socket
\* that is closing or closed drops the message.
SendThrows(r) ==
  IF r.ws = 0 THEN "TypeError"
  ELSE IF r.socks[r.ws].state = "connecting" THEN "InvalidStateError"
  ELSE "none"

\* The call after `await ensureOpen()`: the rejection of the open promise is
\* the call's; else it takes the next id, arms its timer, enters the map
\* and sends; an error that send throws rejects the call.
Continue(r, c) ==
  IF r.calls[c].waits # 0 /\ r.socks[r.calls[c].waits].promise = "rejected"
    THEN [r EXCEPT !.calls[c].stage = "rejected",
                   !.calls[c].outcome = RpcError("WebSocket connection failed")]
    ELSE IF SendThrows(r) # "none"
      THEN [r EXCEPT !.idCounter = @ + 1,
                     !.pending = @ \cup {r.idCounter},
                     !.calls[c].id = r.idCounter,
                     !.calls[c].timer = "live",
                     !.calls[c].deadline = r.now + RPC_CALL_TIMEOUT_MS,
                     !.calls[c].stage = "rejected",
                     !.calls[c].outcome = RpcError(SendThrows(r))]
      ELSE [r EXCEPT !.idCounter = @ + 1,
                     !.pending = @ \cup {r.idCounter},
                     !.calls[c].id = r.idCounter,
                     !.calls[c].timer = "live",
                     !.calls[c].deadline = r.now + RPC_CALL_TIMEOUT_MS,
                     !.calls[c].stage = "pending",
                     !.sent = Append(@, [sock |-> r.ws, id |-> r.idCounter,
                                         method |-> r.calls[c].method])]

\* The timer callback that rejects and leaves the map as it is.
OnTimeoutKeepingEntry(r, c) ==
  [r EXCEPT !.calls[c] = Settle([@ EXCEPT !.timer = "fired"], "rejected",
                                TimeoutError(r.calls[c].method, RPC_CALL_TIMEOUT_MS))]

\* The timer callback of call c: `pending.delete(id); reject(new Error(...))`.
OnTimeout(r, c) ==
  [r EXCEPT !.pending = @ \ {r.calls[c].id},
            !.calls[c] = Settle([@ EXCEPT !.timer = "fired"], "rejected",
                                TimeoutError(r.calls[c].method, RPC_CALL_TIMEOUT_MS))]

\* A message came and went without effect.
Dropped(r) == IF r.pending # {} THEN [r EXCEPT !.dropped = TRUE] ELSE r

\* The try block of ws.onmessage: JSON.parse throws on text that is no JSON,
\* `data.id` throws on the JSON value null; an id that is no number and an
\* id that is not in the map return early; else the timer is cleared, the
\* entry deleted and the call settled.
OnMessageTry(r, msg) ==
  IF msg.kind = "nonjson" THEN Throw("SyntaxError")
  ELSE IF msg.kind = "null" THEN Throw("TypeError")
  ELSE IF msg.kind = "noid" THEN Ok(Dropped(r))
  ELSE IF msg.id \notin r.pending THEN Ok(Dropped(r))
  ELSE Ok([r EXCEPT !.pending = @ \ {msg.id},
                    !.calls[CallOf(r, msg.id)] =
                       IF msg.kind = "error"
                         THEN Settle([@ EXCEPT !.timer = "cleared"], "rejected",
                                     RpcError(msg.message))
                         ELSE Settle([@ EXCEPT !.timer = "cleared"], "resolved",
                                     Result(msg.id))])

\* The message handler without its catch clause.
OnMessageUncaught(r, msg) ==
  IF OnMessageTry(r, msg).ok THEN OnMessageTry(r, msg).val
  ELSE [r EXCEPT !.fault = OnMessageTry(r, msg).err]

\* ws.onmessage: `try { ... } catch { }`.
OnMessage(r, msg) ==
  IF OnMessageTry(r, msg).ok THEN OnMessageTry(r, msg).val ELSE Dropped(r)

\* The close handler that forgets the open promise and nothing else.
OnCloseResetOnly(r) == [r EXCEPT !.openPromise = 0]

\* ws.onclose: openPromise = null, every entry's timer cleared and its call
\* rejected, the map cleared.
OnClose(r) ==
  [r EXCEPT !.openPromise = 0,
            !.pending = {},
            !.calls = [c \in 1..Len(r.calls) |->
                         IF r.calls[c].id \in r.pending
                           THEN Settle([r.calls[c] EXCEPT !.timer = "cleared"], "rejected",
                                       RpcError("WebSocket closed"))
                           ELSE r.calls[c]]]

\* close(): `if (ws) { ws.close(); ws = null; } openPromise = null`.
close(r) ==
  IF r.ws # 0
    THEN [r EXCEPT !.socks[r.ws].state =
                      IF @ \in {"connecting", "open"} THEN "closing" ELSE @,
                   !.ws = 0, !.openPromise = 0]
    ELSE [r EXCEPT !.openPromise = 0]

\* rpcCall(method, params) up to `await ensureOpen()`.
RpcCall(method) ==
  /\ rpc.pc = "on"
  /\ CallerRuns(rpc)
  /\ Len(rpc.calls) < MaxCalls
  /\ Len(ensureOpen(rpc).rpc.socks) <= MaxSocks
  /\ rpc' = [ensureOpen(rpc).rpc EXCEPT
               !.calls = Append(@, [NewCall(method, ensureOpen(rpc).promise) EXCEPT
                                      !.sync = \/ ensureOpen(rpc).promise = 0
                                               \/ ensureOpen(rpc).rpc.socks[
                                                    ensureOpen(rpc).promise].promise
                                                      # "pending"])]
  /\ RpcFrame

\* Call c goes on after `await ensureOpen()`; the calls that are ready go on
\* in the order they were made.
RpcContinue(c) ==
  /\ rpc.pc = "on"
  /\ c \in 1..Len(rpc.calls)
  /\ Ready(rpc, c)
  /\ \A d \in 1..(c - 1) : ~Ready(rpc, d)
  /\ rpc' = Continue(rpc, c)
  /\ RpcFrame

\* rpcCall.close().
RpcClose ==
  /\ rpc.pc = "on"
  /\ CallerRuns(rpc)
  /\ rpc' = close(rpc)
  /\ rpc' # rpc
  /\ RpcFrame

\* Socket i opens: ws.onopen resolves the open promise.
SockOpen(i) ==
  /\ rpc.pc = "on"
  /\ Quiet(rpc)
  /\ i \in 1..Len(rpc.socks)
  /\ rpc.socks[i].state = "connecting"
  /\ rpc' = [rpc EXCEPT !.socks[i] = [state |-> "open", promise |-> "resolved"]]
  /\ RpcFrame

\* Socket i fails, while connecting, while open, or because it was closed
\* before it had opened: ws.onerror rejects the open promise; the close
\* event is still to come.
SockError(i) ==
  /\ rpc.pc = "on"
  /\ Quiet(rpc)
  /\ i \in 1..Len(rpc.socks)
  /\ \/ rpc.socks[i].state \in {"connecting", "open"}
     \/ rpc.socks[i].state = "closing" /\ rpc.socks[i].promise = "pending"
  /\ rpc' = [rpc EXCEPT !.socks[i].state = "closing",
                        !.socks[i].promise = IF @ = "pending" THEN "rejected" ELSE @]
  /\ RpcFrame

\* The close event of socket i: ws.onclose runs.
SockClose(i) ==
  /\ rpc.pc = "on"
  /\ Quiet(rpc)
  /\ i \in 1..Len(rpc.socks)
  /\ \/ rpc.socks[i].state = "open"
     \/ rpc.socks[i].state = "closing" /\ rpc.socks[i].promise # "pending"
  /\ rpc' = [OnClose(rpc) EXCEPT !.socks[i].state = "closed"]
  /\ RpcFrame

\* A message arrives on socket i.
RpcMessage(i, msg) ==
  /\ rpc.pc = "on"
  /\ Quiet(rpc)
  /\ i \in 1..Len(rpc.socks)
  /\ rpc.socks[i].state \in {"open", "closing"}
  /\ rpc.socks[i].promise = "resolved"
  /\ rpc' = OnMessage(rpc, msg)
  /\ RpcFrame

\* The timer of call c fires at its deadline.
RpcTimeout(c) ==
  /\ rpc.pc = "on"
  /\ Quiet(rpc)
  /\ c \in 1..Len(rpc.calls)
  /\ rpc.calls[c].timer = "live"
  /\ rpc.now >= rpc.calls[c].deadline
  /\ rpc' = OnTimeout(rpc, c)
  /\ RpcFrame

\* Time passes, by half the timeout, never past the deadline of a live timer.
RpcTick ==
  /\ rpc.pc = "on"
  /\ Quiet(rpc)
  /\ rpc.now + RPC_CALL_TIMEOUT_MS \div 2 <= MaxNow
  /\ \A c \in 1..Len(rpc.calls) :
       rpc.calls[c].timer = "live" => rpc.now + RPC_CALL_TIMEOUT_MS \div 2 <= rpc.calls[c].deadline
  /\ rpc' = [rpc EXCEPT !.now = @ + RPC_CALL_TIMEOUT_MS \div 2]
  /\ RpcFrame

(***************************************************************************)
(* The pointer record codec on its own                                     *)
(***************************************************************************)

NoInput == [kind |-> "none"]

\* The names, CID strings and foreign remark texts the codec is run on.
NameChars == {97, 58, 37, 32, 233, 55357}
RawChars == {97, 58, 37, 52, 49}
Strings(chars, lo, hi) == UNION {[1..n -> chars] : n \in lo..hi}
NameInputs == Strings(NameChars, 1, MaxNameLen)
CidInputs == {computeCID(BlobSaved), Str(<< "Q", "m", "Y", "7" >>)}
RawInputs == Strings(RawChars, 0, MaxRawLen)

RecordInputs ==
  [kind : {"record"}, address : {AddrA, AddrB}, name : NameInputs, cid : CidInputs,
   blockNum : {HeadNumber}]
ForeignInputs ==
  [kind : {"foreign"}, address : {AddrA}, prefixed : BOOLEAN, text : RawInputs,
   blockNum : {HeadNumber}]

\* Step 4 of submitPlaylistToChain: the pointer text, as the extrinsic that
\* carries it.
EncodeRecord ==
  /\ cpc = "input"
  /\ cin.kind = "record"
  /\ LET text == pointerStr(cin.address, cin.name, cin.cid)
     IN  IF text.ok
           THEN /\ chex' = RemarkExtrinsic(cin.address, text.val).hex
                /\ cpc' = "encoded"
                /\ cout' = cout
           ELSE /\ chex' = chex
                /\ cpc' = "failed"
                /\ cout' = text
  /\ cin' = cin
  /\ CodecFrame

\* Any account publishes a remark of its own making.
PublishForeign ==
  /\ cpc = "input"
  /\ cin.kind = "foreign"
  /\ chex' = RemarkExtrinsic(AddrB, IF cin.prefixed THEN PointerPrefix(cin.address) \o cin.text
                                    ELSE cin.text).hex
  /\ cpc' = "encoded"
  /\ UNCHANGED << cin, cout >>
  /\ CodecFrame

\* The scan decodes the extrinsic for the address.
DecodeRecord ==
  /\ cpc = "encoded"
  /\ cout' = parseExtrinsicForPointer(chex, cin.address, cin.blockNum)
  /\ cpc' = "decoded"
  /\ UNCHANGED << cin, chex >>
  /\ CodecFrame

(***************************************************************************)
(* Specifications                                                          *)
(***************************************************************************)

Explicit == [kind |-> "explicit", account |-> AddrB]
HostKey == [kind |-> "key", bytes |-> "0xd435"]

SignerInputs == {NoSigner, Explicit}
KeyInputs == {NoKey, HostKey}
ContentLengthInputs == {NoHeader, MAX_COMPRESSED_SIZE, MAX_COMPRESSED_SIZE + 1}

IdleLoad ==
  /\ lpc = "idle"
  /\ largs = [address |-> << >>, signal |-> FALSE]
  /\ aborted = FALSE
  /\ lattempt = 1
  /\ scan = NoScan
  /\ lpointer = Null
  /\ lbody = NoBlob
  /\ lresult = NoResult
  /\ lhist = NoHist
  /\ io = NoIo

IdleSubmit ==
  /\ spc = "idle"
  /\ sargs = NoArgs
  /\ sapiTry = 1
  /\ sresolved = NoSigner
  /\ scompressed = NoBlob
  /\ sstore = NoTx
  /\ ssubs = << >>
  /\ stxs = << >>
  /\ sresult = NoResult
  /\ hpc = "idle"
  /\ hargs = [address |-> << >>, playlist |-> [name |-> << >>, channels |-> << >>],
              signer |-> NoSigner]
  /\ chainStatus = "idle"
  /\ chainError = "null"

IdleSingleton ==
  /\ bulletinClient = 0
  /\ bulletinApi = 0
  /\ initPromise = 0
  /\ aliceSigner = NoSigner
  /\ clients = [created |-> 0, destroyed |-> {}]

IdleCodec ==
  /\ cpc = "off"
  /\ cin = NoInput
  /\ chex = << >>
  /\ cout = Ok(Null)

IdleGzip == gz = NoGzip
IdleRpc == rpc = NoRpc
IdleApiUse == apiUse = NoApiUse
IdleConv == conv = NoConv
IdleSync == sync = NoSync

\* The load path, on any of the chains.
Init ==
  /\ useDevKey = FALSE
  /\ hosted = FALSE
  /\ chain \in ChainInputs
  /\ stored = {}
  /\ IdleSingleton /\ IdleLoad /\ IdleSubmit /\ IdleCodec /\ IdleGzip /\ IdleRpc
  /\ IdleApiUse /\ IdleConv /\ IdleSync

Next ==
  \/ \E address \in AddressInputs, signal \in BOOLEAN : LoadStart(address, signal)
  \/ Abort
  \/ ScanOpen
  \/ ConnectFail
  \/ RpcFail
  \/ ScanHeader
  \/ ScanHashes
  \/ ScanBlocks
  \/ \E ok \in BOOLEAN, contentLength \in ContentLengthInputs : LoadFetch(ok, contentLength)
  \/ LoadFetchFail
  \/ \E compressed \in BlobInputs \cup stored : LoadBody(compressed)
  \/ LoadDecompress
  \/ LoadReturn

Spec == Init /\ [][Next]_vars

\* Scans of chains that hold no extrinsic, for heads around the batch size
\* and around the scan limit.
ScanHeads ==
  {0, 1, BATCH_SIZE, BATCH_SIZE + 1, SCAN_BLOCK_LIMIT, SCAN_BLOCK_LIMIT + 1,
   SCAN_BLOCK_LIMIT + MaxOver}

InitScan ==
  /\ useDevKey = FALSE
  /\ hosted = FALSE
  /\ chain \in {[n \in 1..h |-> << >>] : h \in ScanHeads}
  /\ stored = {}
  /\ IdleSingleton /\ IdleLoad /\ IdleSubmit /\ IdleCodec /\ IdleGzip /\ IdleRpc
  /\ IdleApiUse /\ IdleConv /\ IdleSync

NextScan ==
  \/ LoadStart(AddrA, FALSE)
  \/ ScanOpen
  \/ ConnectFail
  \/ RpcFail
  \/ ScanHeader
  \/ ScanHashes
  \/ ScanBlocks
  \/ LoadReturn

SpecScan == InitScan /\ [][NextScan]_vars

\* Submissions, direct and through the hook, and loads of what they published
\* (without a cancellation signal), one call at a time, in either configuration.
InitSubmit ==
  /\ useDevKey \in BOOLEAN
  /\ hosted \in BOOLEAN
  /\ chain = [n \in 1..(MaxHead - 2) |-> << >>]
  /\ stored = {}
  /\ IdleSingleton /\ IdleLoad /\ IdleSubmit /\ IdleCodec /\ IdleGzip /\ IdleRpc
  /\ IdleApiUse /\ IdleConv /\ IdleSync

NextSubmit ==
  \/ /\ lpc = "idle"
     /\ \E address \in AddressInputs, name \in {NameTwo},
           channels \in {ChannelsInput, << >>}, publicKey \in KeyInputs,
           signer \in SignerInputs :
          SubmitStart(address, name, channels, publicKey, signer)
  \/ /\ lpc = "idle"
     /\ \E address \in AddressInputs, name \in {NameOne},
           channels \in {ChannelsInput, ChannelsTwoLineName}, signer \in SignerInputs :
          SaveToChain(address, [name |-> name, channels |-> channels], signer)
  \/ \E apiOk \in BOOLEAN : SubmitApi(apiOk)
  \/ SubmitDevSigner
  \/ \E ok \in BOOLEAN : StoreFinalized(ok)
  \/ \E ok \in BOOLEAN : RemarkFinalized(ok)
  \/ TxError
  \/ SubmitReturn
  \/ SaveSettled
  \/ /\ spc = "idle"
     /\ \E address \in AddressInputs : LoadStart(address, FALSE)
  \/ ScanOpen
  \/ ConnectFail
  \/ RpcFail
  \/ ScanHeader
  \/ ScanHashes
  \/ ScanBlocks
  \/ \E ok \in BOOLEAN, contentLength \in ContentLengthInputs : LoadFetch(ok, contentLength)
  \/ LoadFetchFail
  \/ \E compressed \in BlobInputs \cup stored : LoadBody(compressed)
  \/ LoadDecompress
  \/ LoadReturn

SpecSubmit == InitSubmit /\ [][NextSubmit]_vars

\* A submission and loads that begin while it waits for the finalization of
\* one of its transactions (or while none is made), for one account.
NextOverlap ==
  \/ /\ lpc = "idle"
     /\ \E publicKey \in KeyInputs, signer \in SignerInputs :
          SubmitStart(AddrA, NameOne, ChannelsInput, publicKey, signer)
  \/ \E apiOk \in BOOLEAN : SubmitApi(apiOk)
  \/ SubmitDevSigner
  \/ \E ok \in BOOLEAN : StoreFinalized(ok)
  \/ \E ok \in BOOLEAN : RemarkFinalized(ok)
  \/ TxError
  \/ SubmitReturn
  \/ /\ spc \in {"idle", "store", "remark"}
     /\ LoadStart(AddrA, FALSE)
  \/ ScanOpen
  \/ ConnectFail
  \/ RpcFail
  \/ ScanHeader
  \/ ScanHashes
  \/ ScanBlocks
  \/ \E ok \in BOOLEAN, contentLength \in ContentLengthInputs : LoadFetch(ok, contentLength)
  \/ LoadFetchFail
  \/ \E compressed \in stored : LoadBody(compressed)
  \/ LoadDecompress
  \/ LoadReturn

SpecOverlap == InitSubmit /\ [][NextOverlap]_vars

\* The pointer record codec, on every input.
InitCodec ==
  /\ useDevKey = FALSE
  /\ hosted = FALSE
  /\ chain = << >>
  /\ stored = {}
  /\ IdleSingleton /\ IdleLoad /\ IdleSubmit /\ IdleGzip /\ IdleRpc
  /\ IdleApiUse /\ IdleConv /\ IdleSync
  /\ cpc = "input"
  /\ cin \in RecordInputs \cup ForeignInputs
  /\ chex = << >>
  /\ cout = Ok(Null)

NextCodec ==
  \/ EncodeRecord
  \/ PublishForeign
  \/ DecodeRecord

SpecCodec == InitCodec /\ [][NextCodec]_vars

\* gzipDecompress on its own, on streams of every shape and every limit.
GzipInputs ==
  {Blob(0, 1, gzip, chunks, << >>) :
     gzip \in BOOLEAN, chunks \in Strings(1..MaxChunkLen, 0, MaxChunks)}

InitGzip ==
  /\ useDevKey = FALSE
  /\ hosted = FALSE
  /\ chain = << >>
  /\ stored = {}
  /\ IdleSingleton /\ IdleLoad /\ IdleSubmit /\ IdleCodec /\ IdleRpc
  /\ IdleApiUse /\ IdleConv /\ IdleSync
  /\ \E data \in GzipInputs, maxSize \in 0..MaxLimit : gz = GzipCall(data, maxSize)

NextGzip == GzipRead

SpecGzip == InitGzip /\ [][NextGzip]_vars

\* One JSON-RPC caller under every order of calls, socket events, messages,
\* timers and close().
RpcMethods == {"chain_getHeader"}
RpcMessages ==
  {[kind |-> "nonjson"], [kind |-> "null"], [kind |-> "noid"]}
    \cup {[kind |-> "result", id |-> id] : id \in 1..MaxCalls}
    \cup {[kind |-> "error", id |-> id, message |-> "RpcError"] : id \in 1..MaxCalls}

InitRpc ==
  /\ useDevKey = FALSE
  /\ hosted = FALSE
  /\ chain = << >>
  /\ stored = {}
  /\ IdleSingleton /\ IdleLoad /\ IdleSubmit /\ IdleCodec /\ IdleGzip
  /\ IdleApiUse /\ IdleConv /\ IdleSync
  /\ rpc = NewCaller

NextRpc ==
  \/ \E method \in RpcMethods : RpcCall(method)
  \/ \E c \in 1..MaxCalls : RpcContinue(c)
  \/ RpcClose
  \/ \E i \in 1..MaxSocks : SockOpen(i)
  \/ \E i \in 1..MaxSocks : SockError(i)
  \/ \E i \in 1..MaxSocks : SockClose(i)
  \/ \E i \in 1..MaxSocks, msg \in RpcMessages : RpcMessage(i, msg)
  \/ \E c \in 1..MaxCalls : RpcTimeout(c)
  \/ RpcTick

SpecRpc == InitRpc /\ [][NextRpc]_vars

\* The singleton under every order of getBulletinApi calls, awaits and
\* resets.
InitApi ==
  /\ useDevKey = FALSE
  /\ hosted = FALSE
  /\ chain = << >>
  /\ stored = {}
  /\ IdleSingleton /\ IdleLoad /\ IdleSubmit /\ IdleCodec /\ IdleGzip /\ IdleRpc
  /\ IdleConv /\ IdleSync
  /\ apiUse = NewApiUse

NextApi ==
  \/ ApiGet
  \/ \E i \in 1..MaxGets : ApiAwaited(i)
  \/ ApiReset

SpecApi == InitApi /\ [][NextApi]_vars

(***************************************************************************)
(* The sanitizer and the channel conversions on their inputs               *)
(***************************************************************************)

\* URLs the sanitizer returns unchanged.
UrlPort == << 104, 116, 116, 112, 58, 47, 47, 108, 111, 99, 97, 108, 104, 111, 115, 116, 58, 51,
       48, 48, 48, 47, 112, 97, 116, 104 >>
UrlQuery == << 104, 116, 116, 112, 115, 58, 47, 47, 101, 120, 97, 109, 112, 108, 101, 46, 99, 111,
       109, 47, 112, 97, 116, 104, 63, 113, 117, 101, 114, 121, 61, 118, 97, 108, 117, 101,
       38, 102, 111, 111, 61, 98, 97, 114, 35, 102, 114, 97, 103, 109, 101, 110, 116 >>
UrlAuth == << 104, 116, 116, 112, 115, 58, 47, 47, 117, 115, 101, 114, 58, 112, 97, 115, 115, 64,
       101, 120, 97, 109, 112, 108, 101, 46, 99, 111, 109, 47, 112, 97, 116, 104 >>
UrlUpper == << 72, 84, 84, 80, 83, 58, 47, 47, 69, 120, 97, 109, 112, 108, 101, 46, 67, 79, 77, 47,
       76, 105, 118, 101 >>
UrlPadded == << 32, 104, 116, 116, 112, 58, 47, 47, 101, 120, 97, 109, 112, 108, 101, 46, 99, 111,
       109, 47, 112, 97, 100, 100, 101, 100 >>
\* URLs it rejects.
UrlScript == << 106, 97, 118, 97, 115, 99, 114, 105, 112, 116, 58, 97, 108, 101, 114, 116, 40, 49, 41
       >>
UrlScriptUpper == << 74, 65, 86, 65, 83, 67, 82, 73, 80, 84, 58, 97, 108, 101, 114, 116, 40, 49, 41 >>
UrlScriptMixed == << 74, 97, 86, 97, 83, 99, 82, 105, 80, 116, 58, 97, 108, 101, 114, 116, 40, 49, 41 >>
UrlData == << 100, 97, 116, 97, 58, 116, 101, 120, 116, 47, 104, 116, 109, 108, 44, 60, 104, 49,
       62, 104, 105, 60, 47, 104, 49, 62 >>
UrlBlob == << 98, 108, 111, 98, 58, 104, 116, 116, 112, 58, 47, 47, 101, 120, 97, 109, 112, 108,
       101, 46, 99, 111, 109, 47, 117, 117, 105, 100 >>
UrlFtp == << 102, 116, 112, 58, 47, 47, 101, 120, 97, 109, 112, 108, 101, 46, 99, 111, 109, 47,
       115, 116, 114, 101, 97, 109, 46, 109, 51, 117, 56 >>
UrlFtpUpper == << 70, 84, 80, 58, 47, 47, 101, 120, 97, 109, 112, 108, 101, 46, 99, 111, 109 >>
UrlRtmp == << 114, 116, 109, 112, 58, 47, 47, 101, 120, 97, 109, 112, 108, 101, 46, 99, 111, 109,
       47, 115, 116, 114, 101, 97, 109 >>
UrlFile == << 102, 105, 108, 101, 58, 47, 47, 47, 101, 116, 99, 47, 112, 97, 115, 115, 119, 100 >>
UrlVbscript == << 118, 98, 115, 99, 114, 105, 112, 116, 58, 109, 115, 103, 98, 111, 120, 40, 41 >>
UrlNoScheme == << 110, 111, 116, 45, 97, 45, 117, 114, 108 >>
UrlRelative == << 47, 47, 101, 120, 97, 109, 112, 108, 101, 46, 99, 111, 109, 47, 115, 116, 114, 101,
       97, 109, 46, 109, 51, 117, 56 >>
UrlNoHost == << 104, 116, 116, 112, 58, 47, 47 >>
UrlSpaceHost == << 104, 116, 116, 112, 58, 47, 47, 101, 120, 97, 32, 109, 112, 108, 101, 46, 99, 111,
       109, 47 >>
UrlHttpWord == << 104, 116, 116, 112 >>

AcceptedUrls ==
  {UrlStream1, UrlStream2, UrlStream3, UrlLogo, UrlPort, UrlQuery, UrlAuth, UrlUpper,
   UrlPadded}
RejectedUrls ==
  {NullText, Undefined, << >>, UrlScript, UrlScriptUpper, UrlScriptMixed, UrlData, UrlBlob,
   UrlFtp, UrlFtpUpper, UrlRtmp, UrlFile, UrlVbscript, UrlNoScheme, UrlRelative, UrlNoHost,
   UrlSpaceHost, UrlHttpWord}
UrlInputs == AcceptedUrls \cup RejectedUrls

\* Sequences of at most n elements of a set.
SeqsUpTo(set, n) == UNION {[1..k -> set] : k \in 0..n}

\* Stored records: accepted and rejected stream URLs, logos of every kind.
CompactInputs ==
  {[n |-> << 79, 110, 101 >>, g |-> << 78, 101, 119, 115 >>, l |-> UrlLogo, s |-> UrlStream1],
   [n |-> << 84, 119, 111 >>, g |-> << >>, l |-> NullText, s |-> UrlStream2],
   [n |-> << 66, 97, 100 >>, g |-> << 78, 101, 119, 115 >>, l |-> UrlLogo, s |-> UrlScriptUpper],
   [n |-> << 79, 100, 100 >>, g |-> << >>, l |-> UrlScript, s |-> UrlUpper],
   [n |-> << 78, 105, 108 >>, g |-> << >>, l |-> NullText, s |-> << >>],
   [n |-> << 70, 116, 112 >>, g |-> << 79, 108, 100 >>, l |-> << >>, s |-> UrlFtp]}

\* Channels as an application holds them: any id, live or not.
ChannelInputs ==
  {[id |-> << 105, 100, 45, 49 >>, name |-> << 79, 110, 101 >>, group |-> << 78, 101, 119, 115 >>, logo_url |-> UrlLogo,
    stream_url |-> UrlStream1, is_live |-> TRUE],
   [id |-> << 105, 100, 45, 50 >>, name |-> << 84, 119, 111 >>, group |-> << >>, logo_url |-> NullText,
    stream_url |-> UrlStream2, is_live |-> FALSE],
   [id |-> << 105, 100, 45, 51 >>, name |-> << >>, group |-> << 65, 44, 66 >>, logo_url |-> UrlPort,
    stream_url |-> UrlPadded, is_live |-> TRUE],
   [id |-> << 105, 100, 45, 52 >>, name |-> << 66, 97, 100 >>, group |-> << >>, logo_url |-> NullText,
    stream_url |-> UrlScript, is_live |-> FALSE],
   [id |-> << 105, 100, 45, 53 >>, name |-> << 79, 100, 100 >>, group |-> << >>, logo_url |-> UrlData,
    stream_url |-> UrlStream3, is_live |-> FALSE]}

\* Channels to write as playlist text: stream URLs and logos the sanitizer
\* returns unchanged; names that are plain, empty, or hold a comma; groups
\* that are plain, empty, or hold a double quote.
TextChannelInputs ==
  {[id |-> << 105, 100, 45, 49 >>, name |-> << 79, 110, 101 >>, group |-> << 78, 101, 119, 115 >>, logo_url |-> UrlLogo,
    stream_url |-> UrlStream1, is_live |-> TRUE],
   [id |-> << 105, 100, 45, 50 >>, name |-> << 84, 119, 111 >>, group |-> << >>, logo_url |-> NullText,
    stream_url |-> UrlStream2, is_live |-> FALSE],
   [id |-> << 105, 100, 45, 51 >>, name |-> << >>, group |-> << 78, 101, 119, 115 >>, logo_url |-> NullText,
    stream_url |-> UrlStream3, is_live |-> FALSE],
   [id |-> << 105, 100, 45, 52 >>, name |-> << 65, 44, 66 >>, group |-> << >>, logo_url |-> UrlLogo,
    stream_url |-> UrlStream1, is_live |-> FALSE],
   [id |-> << 105, 100, 45, 53 >>, name |-> << 79, 100, 100 >>, group |-> << 97, 34, 98 >>, logo_url |-> NullText,
    stream_url |-> UrlStream2, is_live |-> TRUE]}

\* Lines of a playlist text: the header, metadata with and without
\* attributes, a comment, an empty line, accepted and rejected URL lines.
LineInputs ==
  {ExtM3U,
   << 35, 69, 88, 84, 73, 78, 70, 58, 45, 49, 32, 103, 114, 111, 117, 112, 45, 116, 105,
       116, 108, 101, 61, 34, 78, 101, 119, 115, 34, 32, 116, 118, 103, 45, 108, 111, 103,
       111, 61, 34, 104, 116, 116, 112, 115, 58, 47, 47, 105, 109, 103, 46, 101, 120, 97,
       109, 112, 108, 101, 47, 98, 98, 99, 46, 112, 110, 103, 34, 44, 79, 110, 101 >>,
   << 35, 69, 88, 84, 73, 78, 70, 58, 45, 49, 32, 116, 118, 103, 45, 108, 111, 103, 111,
       61, 34, 106, 97, 118, 97, 115, 99, 114, 105, 112, 116, 58, 97, 108, 101, 114, 116,
       40, 49, 41, 34, 44, 84, 119, 111 >>,
   << 35, 32, 110, 111, 116, 101 >>,
   << >>,
   UrlStream1,
   << 32, 32, 104, 116, 116, 112, 58, 47, 47, 101, 120, 97, 109, 112, 108, 101, 46, 99,
       111, 109, 47, 115, 116, 114, 101, 97, 109, 50, 46, 109, 51, 117, 56, 32, 13 >>,
   UrlScript,
   UrlNoScheme}

\* lines.join("\n")
RECURSIVE Join(_)
Join(lines) ==
  IF lines = << >> THEN << >>
  ELSE IF Len(lines) = 1 THEN Head(lines)
  ELSE Head(lines) \o << 10 >> \o Join(Tail(lines))

NewConv == [pc |-> "idle", in |-> << >>, mid |-> << >>, out |-> << >>]

\* sanitizeUrl(url) and sanitizeStreamUrl(url)
ConvSanitize(url) ==
  /\ conv.pc = "idle"
  /\ conv' = [pc |-> "sanitized", in |-> url, mid |-> sanitizeStreamUrl(url),
              out |-> sanitizeUrl(url)]
  /\ ConvFrame

\* expandChannels(compact)
ConvExpand(compact) ==
  /\ conv.pc = "idle"
  /\ conv' = [pc |-> "expanded", in |-> compact, mid |-> compact,
              out |-> expandChannels(compact)]
  /\ ConvFrame

\* compactifyChannels(channels), what is stored
ConvCompactify(channels) ==
  /\ conv.pc = "idle"
  /\ conv' = [pc |-> "compacted", in |-> channels, mid |-> compactifyChannels(channels),
              out |-> << >>]
  /\ ConvFrame

\* expandChannels of what was stored
ConvExpandStored ==
  /\ conv.pc = "compacted"
  /\ conv' = [conv EXCEPT !.pc = "restored", !.out = expandChannels(conv.mid)]
  /\ ConvFrame

\* parseM3U of the text made of lines
ConvParse(lines) ==
  /\ conv.pc = "idle"
  /\ conv' = [pc |-> "parsed", in |-> lines, mid |-> Join(lines),
              out |-> parseM3U(Join(lines))]
  /\ ConvFrame

\* serializeToM3U(channels)
ConvSerialize(channels) ==
  /\ conv.pc = "idle"
  /\ conv' = [pc |-> "serialized", in |-> channels, mid |-> serializeToM3U(channels),
              out |-> << >>]
  /\ ConvFrame

\* parseM3U of what was serialized
ConvParseSerialized ==
  /\ conv.pc = "serialized"
  /\ conv' = [conv EXCEPT !.pc = "reparsed", !.out = parseM3U(conv.mid)]
  /\ ConvFrame

InitConv ==
  /\ useDevKey = FALSE
  /\ hosted = FALSE
  /\ chain = << >>
  /\ stored = {}
  /\ IdleSingleton /\ IdleLoad /\ IdleSubmit /\ IdleCodec /\ IdleGzip /\ IdleRpc
  /\ IdleApiUse /\ IdleSync
  /\ conv = NewConv

NextConv ==
  \/ \E url \in UrlInputs : ConvSanitize(url)
  \/ \E compact \in SeqsUpTo(CompactInputs, MaxRecords) : ConvExpand(compact)
  \/ \E channels \in SeqsUpTo(ChannelInputs, MaxRecords) : ConvCompactify(channels)
  \/ ConvExpandStored
  \/ \E lines \in SeqsUpTo(LineInputs, MaxLines) : ConvParse(lines)
  \/ \E channels \in SeqsUpTo(TextChannelInputs, MaxRecords) : ConvSerialize(channels)
  \/ ConvParseSerialized

SpecConv == InitConv /\ [][NextConv]_vars


(***************************************************************************)
(* The device-sync hook                                                    *)
(***************************************************************************)

DeviceTypes == {"web", "desktop", "mobile"}

\* deviceTypeLabel(dt)
deviceTypeLabel(dt) ==
  IF dt = "desktop" THEN "Desktop App"
  ELSE IF dt = "mobile" THEN "Mobile"
  ELSE "Web Browser"

\* A request id a message does not carry, and no toast.
NoRid == "undefined"
NoToast == "null"

\* payloadToChannel(ch); uuid is what crypto.randomUUID() gives.
payloadToChannel(ch, uuid) ==
  LET stream == sanitizeStreamUrl(ch.s)
  IN  IF stream = NullText \/ stream = << >> THEN Null
      ELSE [id |-> uuid, name |-> ch.n, group |-> ch.g, logo_url |-> ch.l,
            stream_url |-> stream, is_live |-> TRUE]

\* The state of the hook on a device whose room is joined.
NewSync(device) ==
  [pc |-> "on", device |-> device, peers |-> << >>, pendingTransfer |-> Null,
   timeout |-> "none", incomingTransfer |-> Null, toastMessage |-> NoToast,
   accepted |-> Null, last |-> Null, incomingSet |-> FALSE]

\* clearPendingTransfer()
clearPendingTransfer(h) ==
  [h EXCEPT !.pendingTransfer = Null, !.timeout = "none"]

\* The sender's confirmation: the message answers the pending request.
Confirmed(h, msg, toast) ==
  IF h.pendingTransfer # Null /\ msg.rid = h.pendingTransfer.requestId
  THEN [clearPendingTransfer(h) EXCEPT !.toastMessage = toast]
  ELSE h

\* handleMessage(msg, peer); uuid and fresh are what crypto.randomUUID()
\* gives for the channel id and for a request id the message lacks.
handleMessage(h, msg, peer, uuid, fresh) ==
  LET isMobile == h.device = "mobile"
      ch == payloadToChannel(msg.ch, uuid)
  IN  CASE msg.t = "online" ->
             [h EXCEPT !.peers =
                Append(SelectSeq(@, LAMBDA p : p.name # msg.d),
                       [name |-> msg.d, type |-> msg.dt, peerId |-> peer])]
        [] msg.t = "offline" ->
             [h EXCEPT !.peers = SelectSeq(@, LAMBDA p : p.name # msg.d)]
        [] msg.t = "transfer" ->
             IF ~isMobile \/ ch = Null THEN h
             ELSE [h EXCEPT !.incomingTransfer =
                     [role |-> IF msg.to = "mobile" THEN "target" ELSE "gatekeeper",
                      requestId |-> msg.rid, fromDevice |-> msg.from,
                      toDeviceType |-> msg.to, channel |-> ch]]
        [] msg.t = "approved" ->
             IF msg.to = h.device /\ ~isMobile
             THEN IF ch = Null THEN h
                  ELSE Confirmed(
                         [h EXCEPT !.incomingTransfer =
                            [role |-> "target",
                             requestId |-> IF msg.rid = NoRid THEN fresh ELSE msg.rid,
                             fromDevice |-> msg.from, toDeviceType |-> msg.to,
                             channel |-> ch]],
                         msg, "Transfer approved")
             ELSE Confirmed(h, msg, "Transfer approved")
        [] msg.t = "rejected" -> Confirmed(h, msg, "Transfer declined")
        [] OTHER -> h

\* Payloads on the wire: stream URLs the sanitizer accepts and rejects,
\* logos that are null, accepted and rejected.
SyncPayloads ==
  {[n |-> << 79, 110, 101 >>, s |-> UrlStream1, g |-> << 78, 101, 119, 115 >>, l |-> UrlLogo],
   [n |-> << 84, 119, 111 >>, s |-> UrlStream2, g |-> << >>, l |-> NullText],
   [n |-> << 66, 97, 100 >>, s |-> UrlScript, g |-> << 78, 101, 119, 115 >>, l |-> UrlLogo],
   [n |-> << 79, 100, 100 >>, s |-> UrlStream3, g |-> << >>, l |-> UrlScript]}

Rids == {"rid-1"}
\* What crypto.randomUUID() gives for a channel id and for a request id.
ChannelUuid == "uuid-1"
RequestUuid == "uuid-2"

\* Messages of every kind, as JSON.parse hands them to the handler.
SyncMessages ==
  {[t |-> "online", d |-> deviceTypeLabel(dt), dt |-> dt] : dt \in {"mobile"}}
    \cup {[t |-> "offline", d |-> deviceTypeLabel("mobile")]}
    \cup {[t |-> "transfer", rid |-> rid, from |-> deviceTypeLabel("desktop"), to |-> to,
           ch |-> ch] : rid \in Rids, to \in {"mobile", "web"}, ch \in SyncPayloads}
    \cup {[t |-> "approved", rid |-> rid, from |-> deviceTypeLabel("mobile"), to |-> to,
           ch |-> ch] : rid \in Rids \cup {NoRid}, to \in {"web"}, ch \in SyncPayloads}
    \cup {[t |-> "rejected", rid |-> rid] : rid \in Rids}

\* A message arrives from a peer; incomingSet tells that it changed the
\* incoming transfer.
SyncMessage(msg) ==
  /\ sync.pc = "on"
  /\ LET after == handleMessage(sync, msg, "peer-1", ChannelUuid, RequestUuid)
     IN  sync' = [after EXCEPT !.last = msg,
                               !.incomingSet =
                                  after.incomingTransfer # sync.incomingTransfer]
  /\ SyncFrame

\* sendTransfer(targetDeviceType, channel) on a device that is not Mobile:
\* the request is sent, the transfer is pending and its timer runs.
SendTransfer(target, requestId) ==
  /\ sync.pc = "on"
  /\ sync.device # "mobile"
  /\ sync' = [sync EXCEPT !.pendingTransfer = [requestId |-> requestId, target |-> target],
                          !.timeout = "live"]
  /\ SyncFrame

\* `Sent to ${deviceTypeLabel(targetDeviceType)}`
SentTo(target) ==
  IF deviceTypeLabel(target) = "Desktop App" THEN "Sent to Desktop App"
  ELSE IF deviceTypeLabel(target) = "Mobile" THEN "Sent to Mobile"
  ELSE "Sent to Web Browser"

\* sendTransfer on Mobile: the approval is sent at once.
SendApproved(target) ==
  /\ sync.pc = "on"
  /\ sync.device = "mobile"
  /\ sync' = [sync EXCEPT !.toastMessage = SentTo(target)]
  /\ SyncFrame

\* The timer of a transfer fires.
TransferTimeout ==
  /\ sync.pc = "on"
  /\ sync.timeout = "live"
  /\ sync' = [sync EXCEPT !.pendingTransfer = Null, !.timeout = "none",
                          !.toastMessage = "Transfer timed out"]
  /\ SyncFrame

\* acceptTransfer(): the channel is handed to the player.
AcceptTransfer ==
  /\ sync.pc = "on"
  /\ sync.incomingTransfer # Null
  /\ sync' = [sync EXCEPT !.accepted = sync.incomingTransfer.channel,
                          !.incomingTransfer = Null]
  /\ SyncFrame

\* dismissTransfer()
DismissTransfer ==
  /\ sync.pc = "on"
  /\ sync.incomingTransfer # Null
  /\ sync' = [sync EXCEPT !.incomingTransfer = Null]
  /\ SyncFrame

\* clearToast(), or the four seconds of a toast are over.
ClearToast ==
  /\ sync.pc = "on"
  /\ sync.toastMessage # NoToast
  /\ sync' = [sync EXCEPT !.toastMessage = NoToast]
  /\ SyncFrame

InitSync ==
  /\ useDevKey = FALSE
  /\ hosted = TRUE
  /\ chain = << >>
  /\ stored = {}
  /\ IdleSingleton /\ IdleLoad /\ IdleSubmit /\ IdleCodec /\ IdleGzip /\ IdleRpc
  /\ IdleApiUse /\ IdleConv
  /\ \E device \in DeviceTypes : sync = NewSync(device)

NextSync ==
  \/ \E msg \in SyncMessages : SyncMessage(msg)
  \/ \E target \in DeviceTypes, requestId \in Rids : SendTransfer(target, requestId)
  \/ \E target \in DeviceTypes : SendApproved(target)
  \/ TransferTimeout
  \/ AcceptTransfer
  \/ DismissTransfer
  \/ ClearToast

SpecSync == InitSync /\ [][NextSync]_vars


(***************************************************************************)
(* Properties of the pointer record codec (SpecCodec)                      *)
(***************************************************************************)

\* The pointer a record of cin is expected to decode to.
RecordPointer ==
  [kind |-> "pointer", cid |-> cin.cid, name |-> cin.name, blockNumber |-> cin.blockNum]

\* C9: decoding an extrinsic never throws: whatever text follows the owner
\* prefix, parseExtrinsicForPointer returns a pointer or null.
C9_DecodeNeverThrows ==
  cpc = "decoded" => (cout.ok /\ cout.val.kind \in {"pointer", "null"})

\* C10: a record written as IPTVCID:<address>:<encodeURIComponent(name)>:<cid>
\* decodes, for the same address, to exactly that name and that CID.
C10_RecordRoundTrip ==
  (cpc = "decoded" /\ cin.kind = "record") => cout = Ok(RecordPointer)

\* A record whose name holds the delimiter and a percent sign has been decoded.
C10_Witness ==
  /\ cpc = "decoded"
  /\ cin.kind = "record"
  /\ cin.name = << 97, 58, 37 >>
  /\ cout = Ok(RecordPointer)


(***************************************************************************)
(* Properties of loadPlaylistFromChain (Spec)                              *)
(***************************************************************************)

\* The scan of the current call returned (it did not throw).
ScanReturned ==
  lhist.scans # << >> /\ lhist.scans[Len(lhist.scans)].outcome = "returned"

\* The call resolved with found: true.
ResolvedFound == lresult.kind = "resolved" /\ lresult.found

\* The well-formed pointer records of each owner: name, CID and remark bytes.
PointerRecords ==
  [address \in {AddrA, AddrB} |->
     {[name |-> name, cid |-> computeCID(blob),
       data |-> TextEncode(PointerText(address, name, blob))] :
        name \in {NameOne, NameTwo}, blob \in BlobInputs}]
PrefixBytes == [address \in {AddrA, AddrB} |-> TextEncode(PointerPrefix(address))]

\* The extrinsic is a remark whose text begins a pointer record of address.
Mentions(ext, address) ==
  /\ ext.call = "System.remark_with_event"
  /\ Len(ext.data) >= Len(PrefixBytes[address])
  /\ SubSeq(ext.data, 1, Len(PrefixBytes[address])) = PrefixBytes[address]

\* The extrinsic is the remark of the well-formed record rec.
IsRecord(ext, rec) == ext.call = "System.remark_with_event" /\ ext.data = rec.data

\* The blocks of the scan window with a record of address, and whether every
\* such record is well-formed.
ScanWindow == (Max(Len(chain) - SCAN_BLOCK_LIMIT, 0) + 1)..Len(chain)
MatchingBlocks(address) ==
  {n \in ScanWindow : \E i \in 1..Len(chain[n]) : Mentions(chain[n][i], address)}
AllWellFormed(address) ==
  \A n \in ScanWindow : \A i \in 1..Len(chain[n]) :
    Mentions(chain[n][i], address) =>
      \E rec \in PointerRecords[address] : IsRecord(chain[n][i], rec)
Highest(blocks) == CHOOSE n \in blocks : \A m \in blocks : m <= n

\* lpointer is the record of address that extrinsic i of block n carries.
PointerIsRecord(n, i, address) ==
  /\ lpointer # Null
  /\ lpointer.blockNumber = n
  /\ \E rec \in PointerRecords[address] :
       /\ IsRecord(chain[n][i], rec)
       /\ lpointer.name = rec.name
       /\ lpointer.cid = rec.cid

\* C1: found: true is returned only for a body whose recomputed CID equals the
\* CID of the pointer; a body whose CID differs gives found: false and is
\* never handed to decompression or to the M3U parser.
C1_IntegrityGate ==
  /\ ResolvedFound =>
       /\ Len(lhist.fetched) = 1
       /\ computeCID(lhist.fetched[1]) = lpointer.cid
       /\ lresult.cid = lpointer.cid
  /\ (lpc = "done" /\ lhist.fetched # << >> /\ computeCID(lhist.fetched[1]) # lpointer.cid)
       => lresult = NotFound
  /\ \A i \in 1..Len(lhist.decompressed) :
       lhist.decompressed[i] \in Range(lhist.fetched) /\ computeCID(lhist.decompressed[i]) = lpointer.cid
  /\ \A i \in 1..Len(lhist.parsed) :
       lhist.parsed[i] \in Range(lhist.fetched) /\ computeCID(lhist.parsed[i]) = lpointer.cid

\* The gateway served a body of acceptable size whose CID is not the
\* pointer's, and the call returned found: false without decompressing it.
C1_Witness ==
  /\ lpc = "done"
  /\ lhist.fetched = << BlobMixed >>
  /\ lpointer # Null
  /\ lpointer.cid = computeCID(BlobSaved)
  /\ lhist.decompressed = << >>
  /\ lresult = NotFound

\* C2: with well-formed records of the address in two or more blocks of the
\* scan window, the pointer the scan returns, and the block_number the call
\* reports, is the one of the highest of those blocks.
C2_HighestBlockWins ==
  (/\ lpc \in {"fetch", "done"}
   /\ ScanReturned
   /\ AllWellFormed(largs.address)
   /\ Cardinality(MatchingBlocks(largs.address)) >= 2)
  => /\ \E i \in 1..Len(chain[Highest(MatchingBlocks(largs.address))]) :
          PointerIsRecord(Highest(MatchingBlocks(largs.address)), i, largs.address)
     /\ ResolvedFound => lresult.block_number = Highest(MatchingBlocks(largs.address))

\* Records in the head block's predecessor and in the second batch: the call
\* found the playlist of the former.
C2_Witness ==
  /\ lpc = "done"
  /\ ResolvedFound
  /\ AllWellFormed(largs.address)
  /\ MatchingBlocks(largs.address) = {HeadNumber - 1, HeadNumber - BATCH_SIZE}
  /\ lresult.block_number = HeadNumber - 1

\* C3: the scan returns the record of the address that was included last:
\* the one of the highest block and, inside it, of the latest extrinsic.
C3_LatestRecordWins ==
  (/\ lpc \in {"fetch", "done"}
   /\ ScanReturned
   /\ AllWellFormed(largs.address)
   /\ MatchingBlocks(largs.address) # {})
  => LET n == Highest(MatchingBlocks(largs.address))
         last == CHOOSE i \in 1..Len(chain[n]) :
                   /\ Mentions(chain[n][i], largs.address)
                   /\ \A j \in (i + 1)..Len(chain[n]) : ~Mentions(chain[n][j], largs.address)
     IN  PointerIsRecord(n, last, largs.address)


\* C8: for a valid address, once the scan has returned, the call resolves to
\* found: false when no record of the address is in the scan range, when the
\* pointer's CID is no CID, when the gateway answers other than 2xx, when the
\* Content-Length or the body exceeds the compressed limit, when the CID of
\* the body differs, when decompression fails or exceeds its limit, and when
\* the text parses to no channel.
C8_FailuresResolveNotFound ==
  (lpc = "done" /\ ValidAddress(largs.address) /\ ScanReturned) =>
    /\ MatchingBlocks(largs.address) = {} => lresult = NotFound
    /\ (lpointer # Null /\ ~CidParses(lpointer.cid)) => lresult = NotFound
    /\ \A i \in 1..Len(lhist.responses) :
         \/ ~lhist.responses[i].ok
         \/ /\ lhist.responses[i].contentLength # NoHeader
            /\ lhist.responses[i].contentLength > MAX_COMPRESSED_SIZE
         => lresult = NotFound
    /\ \A i \in 1..Len(lhist.fetched) :
         \/ lhist.fetched[i].byteLength > MAX_COMPRESSED_SIZE
         \/ computeCID(lhist.fetched[i]) # lpointer.cid
         => lresult = NotFound
    /\ \A i \in 1..Len(lhist.decompressed) :
         ~gzipDecompress(lhist.decompressed[i], MAX_DECOMPRESSED_SIZE).ok => lresult = NotFound
    /\ \A i \in 1..Len(lhist.parsed) :
         parseM3U(lhist.parsed[i].text) = << >> => lresult = NotFound

\* The body matched the pointer but inflates beyond the decompressed limit,
\* and the call resolved to found: false.
C8_Witness ==
  /\ lpc = "done"
  /\ ValidAddress(largs.address)
  /\ lhist.decompressed = << BlobBomb >>
  /\ lhist.parsed = << >>
  /\ lresult = NotFound


(***************************************************************************)
(* Properties of submitPlaylistToChain and of the hook (SpecSubmit)        *)
(***************************************************************************)

InvalidAddressError == Rejected("Invalid SS58 address format")
DevKeyError == Rejected("Dev key signing is disabled. Provide an external signer.")

\* C4: a submit or a load called with an empty address, or one whose length
\* is outside 46..48, rejects with "Invalid SS58 address format" before any
\* transport action: no client, no socket, no RPC request, no transaction
\* built or signed, no fetch.
C4_InvalidAddressRejects ==
  /\ (spc # "idle" /\ (Len(sargs.address) < 46 \/ Len(sargs.address) > 48)) =>
       /\ spc = "done"
       /\ sresult = InvalidAddressError
       /\ io = NoIo
       /\ stxs = << >>
       /\ ssubs = << >>
  /\ (lpc # "idle" /\ (Len(largs.address) < 46 \/ Len(largs.address) > 48)) =>
       /\ lpc = "done"
       /\ lresult = InvalidAddressError
       /\ io = NoIo
       /\ scan = NoScan
       /\ lhist = NoHist

\* A submit with an address of 49 characters was rejected with nothing done.
C4_Witness ==
  /\ spc = "done"
  /\ Len(sargs.address) = 49
  /\ sresult = InvalidAddressError
  /\ io = NoIo

\* C5: with the development-key flag off the cached development signer stays
\* null and signs nothing, and a submit with no explicit signer and without
\* (hosted and a public key) builds and signs no transaction and, once it has
\* the chain API, rejects with the signer error.
C5_DevSignerInactive ==
  ~useDevKey =>
    /\ aliceSigner = NoSigner
    /\ \A i \in 1..Len(stxs) : stxs[i].signer # DevSigner
    /\ (/\ spc # "idle"
        /\ sargs.signer = NoSigner
        /\ ~(hosted /\ sargs.publicKey.kind # "none")) =>
          /\ spc \in {"api", "done"}
          /\ stxs = << >>
          /\ ssubs = << >>
          /\ io.built = 0
          /\ io.signed = 0
          /\ spc = "done" =>
               sresult \in {InvalidAddressError, Rejected("ApiError"), DevKeyError}
          /\ (spc = "done" /\ ValidAddress(sargs.address) /\ sresult # Rejected("ApiError")) =>
               sresult = DevKeyError

\* Flag off, not hosted, no signer given: the call was rejected for want of a
\* signer.
C5_Witness ==
  /\ ~useDevKey
  /\ ~hosted
  /\ spc = "done"
  /\ ValidAddress(sargs.address)
  /\ sargs.signer = NoSigner
  /\ sresult = DevKeyError
  /\ stxs = << >>

\* C6: the signer is the explicit one if given, else the host's if hosted
\* with a public key, else the development signer (only with the flag on);
\* that one signer signs the store and the remark transaction.
C6_SignerPriority ==
  stxs # << >> =>
    /\ sresolved = IF sargs.signer # NoSigner THEN sargs.signer
                   ELSE IF hosted /\ sargs.publicKey.kind # "none"
                     THEN getHostSigner(sargs.publicKey)
                   ELSE DevSigner
    /\ sresolved = DevSigner => useDevKey
    /\ Len(stxs) <= 2
    /\ \A i \in 1..Len(stxs) : stxs[i].signer = sresolved
    /\ stxs[1].call = "TransactionStorage.store"
    /\ Len(stxs) = 2 => stxs[2].call = "System.remark_with_event"

\* Hosted with a public key and an explicit signer: both transactions were
\* signed by the explicit signer.
C6_Witness ==
  /\ hosted
  /\ sargs.publicKey = HostKey
  /\ sargs.signer = Explicit
  /\ Len(stxs) = 2
  /\ stxs[1].signer = Explicit
  /\ stxs[2].signer = Explicit

\* C7: the signer given to saveToChain arrives at submitPlaylistToChain as
\* its explicit signer and signs the submission.
C7_HookSignerIsExplicit ==
  (hpc = "awaiting" /\ hargs.signer # NoSigner) =>
    /\ sargs.signer = hargs.signer
    /\ \A i \in 1..Len(stxs) : stxs[i].signer = hargs.signer


(***************************************************************************)
(* Properties of gzipDecompress (SpecGzip)                                 *)
(***************************************************************************)

RECURSIVE SumSeq(_)
SumSeq(q) == IF q = << >> THEN 0 ELSE Head(q) + SumSeq(Tail(q))

\* C11: gzipDecompress returns at most maxSize bytes and never a truncated
\* output; as soon as the running total exceeds maxSize it cancels the
\* stream and throws the size-limit error, with no chunk read after that one;
\* a stream of exactly maxSize bytes is accepted.
C11_DecompressLimit ==
  /\ gz.pc \in {"reading", "done"} =>
       /\ gz.cancelled <=> gz.totalLen > gz.maxSize
       /\ gz.totalLen > gz.maxSize =>
            /\ gz.pc = "done"
            /\ gz.out = Throw("SizeLimit")
            /\ SumSeq(SubSeq(gz.data.chunks, 1, gz.reads - 1)) <= gz.maxSize
            /\ SumSeq(SubSeq(gz.data.chunks, 1, gz.reads)) > gz.maxSize
       /\ (gz.pc = "done" /\ gz.out.ok) =>
            /\ gz.out.val.byteLength <= gz.maxSize
            /\ gz.out.val.byteLength = SumSeq(gz.data.chunks)
            /\ gz.chunks = gz.data.chunks
       /\ (gz.pc = "done" /\ gz.data.gzip /\ SumSeq(gz.data.chunks) <= gz.maxSize) => gz.out.ok
       /\ gz.pc = "done" => gz.out = gzipDecompress(gz.data, gz.maxSize)

\* The second of three chunks took the total past the limit: the stream was
\* cancelled with the third chunk unread.
C11_Witness ==
  /\ gz.pc = "done"
  /\ gz.cancelled
  /\ gz.out = Throw("SizeLimit")
  /\ Len(gz.data.chunks) = 3
  /\ gz.reads = 2


(***************************************************************************)
(* Further properties of loadPlaylistFromChain (Spec)                      *)
(***************************************************************************)

\* C12: the compressed-size ceiling is enforced twice: a Content-Length over
\* the ceiling gives found: false with the body never read; a body over the
\* ceiling, whatever Content-Length said, gives found: false with neither its
\* CID computed nor any of it decompressed.
C12_CompressedCeiling ==
  /\ \A i \in 1..Len(lhist.responses) :
       (/\ lhist.responses[i].ok
        /\ lhist.responses[i].contentLength # NoHeader
        /\ lhist.responses[i].contentLength > 10 * 1024 * 1024)
       => /\ lpc = "done"
          /\ lresult = NotFound
          /\ lhist.fetched = << >>
  /\ \A i \in 1..Len(lhist.fetched) :
       lhist.fetched[i].byteLength > 10 * 1024 * 1024
       => /\ lpc = "done"
          /\ lresult = NotFound
          /\ lhist.hashed = << >>
          /\ lhist.decompressed = << >>
          /\ lhist.parsed = << >>

\* The response carried no Content-Length and the body turned out one byte
\* over the ceiling: found: false, nothing hashed.
C12_Witness ==
  /\ lpc = "done"
  /\ Len(lhist.responses) = 1
  /\ lhist.responses[1].contentLength = NoHeader
  /\ lhist.fetched = << BlobOversize >>
  /\ lhist.hashed = << >>
  /\ lresult = NotFound


(***************************************************************************)
(* Further properties of submitPlaylistToChain (SpecSubmit)                *)
(***************************************************************************)

StoreFailedError == Rejected("TransactionStorage.store failed on-chain")
RemarkFailedError == Rejected("CID pointer remark failed on-chain")

\* C13: the pointer remark is submitted only after the store transaction was
\* finalized with ok = true; when the store finalized with failure or its
\* stream errored, the call rejects and submits no pointer remark.
C13_RemarkAfterStore ==
  /\ \A i \in 1..Len(stxs) :
       stxs[i].call = "System.remark_with_event" =>
         /\ i = 2
         /\ stxs[1].call = "TransactionStorage.store"
         /\ ssubs[1].settled = "ok"
         /\ sstore # NoTx
  /\ (ssubs # << >> /\ ssubs[1].settled \in {"failed", "error"}) =>
       /\ spc = "done"
       /\ sresult.kind = "rejected"
       /\ Len(stxs) = 1
       /\ Len(ssubs) = 1

\* The store transaction finalized with failure: rejected, one transaction.
C13_Witness ==
  /\ spc = "done"
  /\ Len(ssubs) = 1
  /\ ssubs[1].settled = "failed"
  /\ Len(stxs) = 1
  /\ sresult = StoreFailedError

\* C14: a store finalized with failure rejects with the store error; a remark
\* finalized with failure after a successful store rejects with the pointer
\* error, a different one, with the blob left stored and no further
\* transaction; the call resolves, with <store tx hash>:<cid>, exactly when
\* both transactions finalized with ok = true.
C14_StepErrors ==
  /\ StoreFailedError # RemarkFailedError
  /\ Len(stxs) <= 2
  /\ spc = "done" =>
       /\ (ssubs # << >> /\ ssubs[1].settled = "failed") => sresult = StoreFailedError
       /\ (Len(ssubs) = 2 /\ ssubs[2].settled = "failed") =>
            /\ sresult = RemarkFailedError
            /\ ssubs[1].settled = "ok"
            /\ scompressed \in stored
            /\ Len(stxs) = 2
       /\ sresult.kind = "resolved" <=>
            (Len(ssubs) = 2 /\ ssubs[1].settled = "ok" /\ ssubs[2].settled = "ok")
       /\ sresult.kind = "resolved" =>
            sresult.value = sstore.txHash \o << 58 >> \o computeCID(scompressed)

\* The store succeeded and the pointer remark finalized with failure.
C14_Witness ==
  /\ spc = "done"
  /\ Len(ssubs) = 2
  /\ ssubs[2].settled = "failed"
  /\ sresult = RemarkFailedError
  /\ scompressed \in stored

\* C15: every wait on a finalized transaction, of the store, the Sudo-wrapped
\* store and the pointer remark, has released its subscription once it has
\* settled: finalized ok, finalized with failure, or stream error.
C15_SubscriptionsReleased ==
  /\ \A i \in 1..Len(ssubs) : ssubs[i].settled # "pending" => ~ssubs[i].active
  /\ \A i \in 1..Len(ssubs) : ssubs[i].settled = "pending" => (i = Len(ssubs) /\ spc # "done")
  /\ Len(ssubs) = Len(stxs)
  /\ spc = "done" => \A i \in 1..Len(ssubs) : ~ssubs[i].active

\* The stream of a Sudo-wrapped store errored and its subscription is released.
C15_Witness ==
  /\ spc = "done"
  /\ Len(stxs) = 1
  /\ stxs[1].wrapped
  /\ ssubs = << [active |-> FALSE, settled |-> "error"] >>

\* C16: in a hosted environment the store transaction is submitted directly,
\* never wrapped in Sudo; the wrapper is used only when not hosted.
C16_NoSudoWhenHosted ==
  \A i \in 1..Len(stxs) : stxs[i].wrapped => ~hosted


(***************************************************************************)
(* Properties of the scan and its retry (SpecSubmit, Spec)                 *)
(***************************************************************************)

NoDuplicates(q) == \A i, j \in 1..Len(q) : q[i] = q[j] => i = j
Threw(ended) == ended.outcome # "returned"

\* C17: when the scan throws, the call resets the chain-API singleton and
\* runs the whole scan once more; the error of a second failure goes to the
\* caller; there are never more than two scans in a call, and inside a scan
\* no RPC request is sent twice.
C17_RetryOnce ==
  /\ Len(lhist.scans) <= 2
  /\ lattempt \in {1, 2}
  /\ lpc \in {"connect", "header", "hashes", "blocks"} => Len(lhist.scans) = lattempt - 1
  /\ lpc \in {"fetch", "body", "decompress", "done"} /\ ValidAddress(largs.address)
       => Len(lhist.scans) = lattempt
  /\ Len(lhist.scans) >= 1 =>
       (Threw(lhist.scans[1]) <=> lattempt = 2)
  /\ (lpc # "idle" /\ lattempt = 2) =>
       /\ bulletinClient = 0
       /\ bulletinApi = 0
       /\ initPromise = 0
       /\ aliceSigner = NoSigner
       /\ clients.destroyed = 1..clients.created
  /\ (Len(lhist.scans) = 2 /\ Threw(lhist.scans[2])) =>
       /\ lpc = "done"
       /\ lresult = Rejected(lhist.scans[2].outcome)
  /\ NoDuplicates(scan.log)

\* A client was cached; both scans failed; the client is destroyed and the
\* second error is the caller's.
C17_Witness ==
  /\ lpc = "done"
  /\ Len(lhist.scans) = 2
  /\ lhist.scans[1].outcome = "WebSocket connection failed"
  /\ lhist.scans[2].outcome = "RpcError"
  /\ lresult = Rejected("RpcError")
  /\ clients.created >= 1
  /\ clients.destroyed = 1..clients.created
  /\ bulletinClient = 0


\* The block a request of the scan asks about (0 for chain_getHeader).
ReqBlock(r) ==
  IF r.method = "chain_getBlockHash" THEN r.param
  ELSE IF r.method = "chain_getBlock" THEN r.param.hash
  ELSE 0
\* The batch that starts at block bs.
InBatch(n, bs) == n <= bs /\ n > bs - BATCH_SIZE
AbortedInScan == lhist.abort.at \in {"connect", "header", "hashes", "blocks"}

BatchOf(n) == (scan.headNumber - n) \div BATCH_SIZE
\* The blocks the running scan is to look at.
ScanRange == (scan.startBlock + 1)..scan.headNumber
\* Block n holds a well-formed record of address.
HoldsRecord(n, address) ==
  \E i \in 1..Len(chain[n]) : \E rec \in PointerRecords[address] : IsRecord(chain[n][i], rec)
\* Request j of the scan was preceded by the request `method` about block m.
SentBefore(j, method, m) ==
  \E i \in 2..(j - 1) : scan.log[i].method = method /\ ReqBlock(scan.log[i]) = m

\* C19: after chain_getHeader the scan asks batch by batch in descending
\* order; inside a batch every chain_getBlockHash precedes every
\* chain_getBlock; a batch is asked about only when every block of every more
\* recent batch was asked about in full and held no record; and with a
\* record found the last request is a chain_getBlock of the record's batch.
C19_ScanOrder ==
  /\ scan.log # << >> => scan.log[1].method = "chain_getHeader"
  /\ \A j \in 2..Len(scan.log) :
       /\ scan.log[j].method \in {"chain_getBlockHash", "chain_getBlock"}
       /\ ReqBlock(scan.log[j]) \in ScanRange
       /\ \A i \in 2..(j - 1) :
            /\ BatchOf(ReqBlock(scan.log[i])) <= BatchOf(ReqBlock(scan.log[j]))
            /\ scan.log[i].method = scan.log[j].method
                 => ReqBlock(scan.log[i]) > ReqBlock(scan.log[j])
            /\ (/\ BatchOf(ReqBlock(scan.log[i])) = BatchOf(ReqBlock(scan.log[j]))
                /\ scan.log[j].method = "chain_getBlockHash")
                 => scan.log[i].method = "chain_getBlockHash"
       /\ \A m \in ScanRange :
            /\ (/\ BatchOf(m) = BatchOf(ReqBlock(scan.log[j]))
                /\ scan.log[j].method = "chain_getBlock")
                 => SentBefore(j, "chain_getBlockHash", m)
            /\ BatchOf(m) < BatchOf(ReqBlock(scan.log[j]))
                 => /\ SentBefore(j, "chain_getBlockHash", m)
                    /\ SentBefore(j, "chain_getBlock", m)
                    /\ ~HoldsRecord(m, largs.address)
  /\ (ScanReturned /\ lpointer # Null) =>
       /\ scan.ws = "closed"
       /\ scan.log[Len(scan.log)].method = "chain_getBlock"
       /\ BatchOf(ReqBlock(scan.log[Len(scan.log)])) = BatchOf(lpointer.blockNumber)

\* The first batch held no record and the second did: the scan sent the
\* header request and both requests for every block of the two batches.
C19_Witness ==
  /\ ScanReturned
  /\ lpointer # Null
  /\ BatchOf(lpointer.blockNumber) = 1
  /\ Len(scan.log) = 1 + 2 * HeadNumber



(***************************************************************************)
(* Properties of the JSON-RPC caller (SpecRpc)                             *)
(***************************************************************************)

\* Call c was rejected by its timer.
TimedOut(c) == rpc.calls[c].outcome.kind = "timeout"

\* The step in which the timer of call c fires.
TimerFires(c) == rpc.calls[c].timer = "live" /\ rpc'.calls[c].timer = "fired"

\* C20: a call that is still pending when RPC_CALL_TIMEOUT_MS have passed
\* since it was sent is rejected with the timeout error that names its
\* method and the 10000 ms; from then on its id is not in the pending map;
\* the step that rejects it takes just that id out of the map and leaves
\* every other call as it was; and no call stays pending past its deadline.
C20_Timeout ==
  /\ [](\A c \in 1..Len(rpc.calls) :
          /\ TimedOut(c) =>
               /\ rpc.calls[c].stage = "rejected"
               /\ rpc.calls[c].outcome = TimeoutError(rpc.calls[c].method, 10000)
               /\ rpc.calls[c].id \notin rpc.pending
               /\ rpc.now >= rpc.calls[c].deadline
          /\ rpc.calls[c].stage = "pending" =>
               /\ rpc.calls[c].timer = "live"
               /\ rpc.calls[c].deadline = rpc.now
                    \/ rpc.calls[c].deadline - rpc.now \in 1..RPC_CALL_TIMEOUT_MS)
  /\ [][\A c \in 1..Len(rpc.calls) :
          TimerFires(c) =>
            /\ rpc.calls[c].stage = "pending" => TimedOut(c)'
            /\ rpc'.pending = rpc.pending \ {rpc.calls[c].id}
            /\ \A d \in 1..Len(rpc.calls) : d # c => rpc'.calls[d] = rpc.calls[d]]_vars

\* The first call got no response and was rejected by its timer while the
\* second, sent later, is still pending and in the map.
C20_Witness ==
  /\ Len(rpc.calls) = 2
  /\ TimedOut(1)
  /\ rpc.calls[1].id \notin rpc.pending
  /\ rpc.calls[2].stage = "pending"
  /\ rpc.calls[2].timer = "live"
  /\ rpc.calls[2].deadline > rpc.calls[1].deadline
  /\ rpc.calls[2].id \in rpc.pending


\* The step in which the close event of a socket is handled.
SocketCloses ==
  \E i \in 1..Len(rpc.socks) : rpc.socks[i].state # "closed" /\ rpc'.socks[i].state = "closed"

\* C21: the step that handles a socket's close event rejects every call
\* pending before it with "WebSocket closed", leaves no timer live, leaves
\* the calls settled earlier as they were, and empties the pending map.
C21_CloseRejectsPending ==
  [][SocketCloses =>
       /\ rpc'.pending = {}
       /\ \A c \in 1..Len(rpc.calls) :
            /\ rpc.calls[c].stage = "pending" =>
                 /\ rpc'.calls[c].stage = "rejected"
                 /\ rpc'.calls[c].outcome = RpcError("WebSocket closed")
                 /\ rpc'.calls[c].timer = "cleared"
            /\ rpc.calls[c].stage # "pending" =>
                 /\ rpc'.calls[c].stage = rpc.calls[c].stage
                 /\ rpc'.calls[c].outcome = rpc.calls[c].outcome
            /\ rpc'.calls[c].timer # "live"]_vars

\* Two calls were pending on the socket when it closed: both are rejected
\* with "WebSocket closed", their timers cleared, the map empty.
C21_Witness ==
  /\ Len(rpc.calls) = 2
  /\ rpc.socks[1].state = "closed"
  /\ \A c \in 1..2 :
       /\ rpc.calls[c].stage = "rejected"
       /\ rpc.calls[c].outcome = RpcError("WebSocket closed")
       /\ rpc.calls[c].timer = "cleared"
  /\ rpc.pending = {}


\* The message is one the handler has no call for.
Discardable(msg) == msg.kind \in {"nonjson", "null", "noid"} \/ msg.id \notin rpc.pending

\* C22: in every state of the caller, a message that is no JSON, that has
\* no numeric id or whose id is not in the pending map leaves the map, every
\* call and every timer as they are, and no exception leaves a handler.
C22_MalformedDiscarded ==
  /\ rpc.fault = "none"
  /\ \A msg \in RpcMessages :
       Discardable(msg) =>
         OnMessage(rpc, msg) = IF rpc.pending # {} THEN [rpc EXCEPT !.dropped = TRUE] ELSE rpc

\* A message was dropped while a call was pending: the call is pending
\* still, in the map, its timer live.
C22_Witness ==
  /\ rpc.dropped
  /\ Len(rpc.calls) >= 1
  /\ rpc.calls[1].stage = "pending"
  /\ rpc.calls[1].timer = "live"
  /\ rpc.calls[1].id \in rpc.pending


\* C23: in every state of the caller, close() leaves no entry in the pending
\* map and no call pending, and a second close() changes nothing more.
C23_CloseTearsDown ==
  /\ close(rpc).pending = {}
  /\ \A c \in 1..Len(rpc.calls) : close(rpc).calls[c].stage # "pending"
  /\ close(close(rpc)) = close(rpc)


\* C24: every scan that ended, by returning or by throwing, closed its
\* caller once and left its socket closed; the scan that is running has not
\* closed it yet.
C24_ScanClosesOnce ==
  /\ \A i \in 1..Len(lhist.scans) :
       lhist.scans[i].closes = 1 /\ lhist.scans[i].ws = "closed"
  /\ lpc \in {"connect", "header", "hashes", "blocks"} =>
       scan.closes = 0 /\ scan.ws \in {"connecting", "open"}
  /\ (lpc \in {"fetch", "body", "decompress", "done"} /\ lhist.scans # << >>) =>
       scan.closes = 1 /\ scan.ws = "closed"

\* The first scan threw on a failed RPC call, the second returned a record:
\* each closed its caller once.
C24_Witness ==
  /\ Len(lhist.scans) = 2
  /\ lhist.scans[1] = [closes |-> 1, ws |-> "closed", outcome |-> "RpcError"]
  /\ lhist.scans[2] = [closes |-> 1, ws |-> "closed", outcome |-> "returned"]
  /\ lpointer # Null



(***************************************************************************)
(* Properties of the chain-API singleton (SpecApi)                         *)
(***************************************************************************)

\* The epochs, i.e. the stretches between two resets, in which a caller
\* called.
Epochs == {apiUse.got[i].epoch : i \in 1..Len(apiUse.got)}

\* C25: callers between the same two resets are handed the same client/api
\* pair, callers separated by a reset different ones; one client was made
\* per stretch in which someone called; every client but the current one
\* has been destroyed and the current one has not; and client, api and
\* promise are null together, as after a reset.
C25_InitBarrier ==
  /\ \A i, j \in 1..Len(apiUse.got) :
       /\ apiUse.got[i].client = apiUse.got[i].api
       /\ apiUse.got[i].client \in 1..clients.created
       /\ apiUse.got[i].epoch = apiUse.got[j].epoch
            <=> apiUse.got[i].client = apiUse.got[j].client
  /\ clients.created = Cardinality(Epochs)
  /\ clients.destroyed = (1..clients.created) \ {bulletinClient}
  /\ bulletinClient = bulletinApi /\ bulletinApi = initPromise
  /\ bulletinClient = 0 <=> apiUse.resets \notin Epochs

\* Two callers before the reset share client 1, which the reset destroyed;
\* two callers after it share client 2; the first caller has not gone on
\* past its await yet.
C25_Witness ==
  /\ Len(apiUse.got) = 4
  /\ apiUse.resets = 1
  /\ apiUse.got[1].client = 1 /\ apiUse.got[2].client = 1
  /\ apiUse.got[3].client = 2 /\ apiUse.got[4].client = 2
  /\ ~apiUse.got[1].awaited
  /\ clients = [created |-> 2, destroyed |-> {1}]


(***************************************************************************)
(* C26: a saved playlist loads back                                        *)
(***************************************************************************)

\* The stream URLs of a channel list, in order.
StreamUrls(channels) == [i \in 1..Len(channels) |-> channels[i].stream_url]

\* Every stream URL of the list is one the sanitizer accepts.
ValidStreams(channels) ==
  \A i \in 1..Len(channels) : sanitizeStreamUrl(channels[i].stream_url) # NullText

\* Where the chain holds a remark.
RemarksOnChain ==
  {<< n, i >> \in UNION {{n} \X DOMAIN chain[n] : n \in DOMAIN chain} :
     chain[n][i].call = "System.remark_with_event"}

\* The playlists saved through the hook, as the store call and the pointer
\* remark carry them.
SavedPlaylists ==
  {[address |-> address, name |-> NameOne, channels |-> channels,
    compressed |-> gzipCompress(serializeToM3U(channels)),
    data |-> TextEncode(PointerText(address, NameOne,
                                    gzipCompress(serializeToM3U(channels))))] :
     address \in {AddrA, AddrB}, channels \in {ChannelsInput, ChannelsTwoLineName}}

\* The one submission that reached the chain is saved's and was confirmed;
\* a load for its address found the pointer, was served the stored bytes and
\* has ended.
SavedThenLoaded(saved) ==
  /\ lpc = "done"
  /\ chainStatus = "confirmed"
  /\ Len(lhist.decompressed) = 1
  /\ largs.address = saved.address
  /\ lhist.decompressed = << saved.compressed >>
  /\ saved.compressed \in stored
  /\ Cardinality(RemarksOnChain) = 1
  /\ \A at \in RemarksOnChain : chain[at[1]][at[2]].data = saved.data

\* C26: after a submission of a name and of channels with valid stream URLs
\* succeeded, a load for the same address that finds the pointer and is
\* served the stored bytes returns found: true with that name and with
\* channels whose stream URLs are the submitted ones, in order.
C26_SaveLoadRoundTrip ==
  \A saved \in SavedPlaylists :
    (SavedThenLoaded(saved) /\ ValidStreams(saved.channels))
      => /\ ResolvedFound
         /\ lresult.playlist.name = saved.name
         /\ StreamUrls(lresult.playlist.channels) = StreamUrls(saved.channels)

\* The same round trip for a playlist whose texts hold no line break.
C26_PlainRoundTrip ==
  \A saved \in SavedPlaylists :
    (SavedThenLoaded(saved) /\ saved.channels = ChannelsInput)
      => /\ ResolvedFound
         /\ lresult.playlist.name = saved.name
         /\ lresult.playlist.channels = saved.channels

(***************************************************************************)
(* C27 to C30: the sanitizer and the channel conversions                   *)
(***************************************************************************)

\* The text parses as an absolute URL whose scheme is http or https.
IsHttpUrl(url) ==
  /\ url \notin {NullText, Undefined}
  /\ NewURL(url).ok
  /\ NewURL(url).val.protocol \in {<< 104, 116, 116, 112, 58 >>, << 104, 116, 116, 112, 115, 58 >>}

\* C27: expandChannels emits no channel for a record whose stream URL fails
\* sanitization and one for every other record, in the order of the
\* records; parseM3U adds no channel for a URL line whose URL fails, one for
\* every other URL line, in order, and a URL line that follows another URL
\* line without a metadata line in between gets no pending name, group or
\* logo.
C27_DropOnInvalid ==
  /\ conv.pc = "expanded" =>
       LET kept == SelectSeq(conv.in, LAMBDA c : IsHttpUrl(c.s))
       IN  /\ Len(conv.out) = Len(kept)
           /\ \A i \in 1..Len(kept) :
                /\ conv.out[i].name = kept[i].n
                /\ conv.out[i].group = kept[i].g
                /\ conv.out[i].stream_url = kept[i].s
  /\ conv.pc = "parsed" =>
       LET lines == [i \in 1..Len(conv.in) |-> Trim(conv.in[i])]
           IsUrlLine(i) == lines[i] # << >> /\ ~StartsWith(lines[i], << 35 >>)
           accepted == SelectSeq([i \in 1..Len(lines) |-> i],
                                 LAMBDA i : IsUrlLine(i) /\ IsHttpUrl(lines[i]))
       IN  /\ Len(conv.out) = Len(accepted)
           /\ \A k \in 1..Len(accepted) :
                /\ conv.out[k].stream_url = lines[accepted[k]]
                /\ (\E q \in 1..(accepted[k] - 1) :
                      /\ IsUrlLine(q)
                      /\ \A j \in (q + 1)..(accepted[k] - 1) : ~StartsWith(lines[j], ExtInf))
                   => /\ conv.out[k].name = lines[accepted[k]]
                      /\ conv.out[k].group = << >>
                      /\ conv.out[k].logo_url = NullText

\* A metadata line, a rejected URL line, an accepted URL line: one channel,
\* named by its URL.
C27_Witness ==
  /\ conv.pc = "parsed"
  /\ Len(conv.in) = 3
  /\ StartsWith(conv.in[1], ExtInf)
  /\ conv.in[2] = UrlScript
  /\ conv.in[3] = UrlStream1
  /\ Len(conv.out) = 1
  /\ conv.out[1].name = UrlStream1

C29_CompactRoundTrip ==
  (/\ conv.pc = "restored"
   /\ \A i \in 1..Len(conv.in) :
        /\ IsHttpUrl(conv.in[i].stream_url)
        /\ conv.in[i].logo_url = NullText \/ IsHttpUrl(conv.in[i].logo_url))
  => /\ Len(conv.out) = Len(conv.in)
     /\ \A i \in 1..Len(conv.in) :
          /\ conv.out[i].name = conv.in[i].name
          /\ conv.out[i].group = conv.in[i].group
          /\ conv.out[i].logo_url = conv.in[i].logo_url
          /\ conv.out[i].stream_url = conv.in[i].stream_url
          /\ conv.out[i].is_live = FALSE
          /\ conv.out[i].id = simpleHash(conv.in[i].stream_url)

\* Two channels went through, the first live and with an id of its own.
C29_Witness ==
  /\ conv.pc = "restored"
  /\ Len(conv.in) = 2
  /\ conv.in[1].is_live
  /\ conv.in[1].logo_url = UrlLogo
  /\ conv.in[2].logo_url = NullText
  /\ Len(conv.out) = 2
  /\ conv.out[1].id # conv.in[1].id
  /\ conv.out[1].logo_url = UrlLogo

\* C30: sanitizeUrl returns its input when it parses as an absolute URL with
\* scheme http or https and null for every other input: null, undefined,
\* the empty string, what does not parse, any other scheme in any letter
\* case; sanitizeStreamUrl returns the same.
C30_SanitizerContract ==
  conv.pc = "sanitized" =>
    /\ conv.out = IF IsHttpUrl(conv.in) THEN conv.in ELSE NullText
    /\ conv.in \in RejectedUrls => conv.out = NullText
    /\ conv.in \in AcceptedUrls => conv.out = conv.in
    /\ conv.mid = conv.out

\* A script URL in capital letters was rejected.
C30_Witness ==
  /\ conv.pc = "sanitized"
  /\ conv.in = UrlScriptUpper
  /\ conv.out = NullText


(***************************************************************************)
(* C31: the range of a scan                                                *)
(***************************************************************************)

\* The block numbers the scan asked about with `method`, in the order asked.
Asked(method) ==
  LET reqs == SelectSeq(scan.log, LAMBDA r : r.method = method)
  IN  [i \in 1..Len(reqs) |-> ReqBlock(reqs[i])]

\* h, h - 1, ..., f + 1
Descending(h, f) == [i \in 1..(h - f) |-> h + 1 - i]

IsPrefix(s, t) == Len(s) <= Len(t) /\ s = SubSeq(t, 1, Len(s))

\* C31: with head h and floor f = max(h - 500, 0) a scan asks about blocks
\* h, h - 1, ... down to f + 1 at most, each once, and about no other block;
\* no more than 10 requests of one kind follow each other; a scan that found
\* no record asked about every block of f+1..h, both for its hash and for
\* the block, so about 500 blocks at most and about none when the head is 0.
C31_ScanWindow ==
  LET h == Len(chain)
      f == IF h - 500 > 0 THEN h - 500 ELSE 0
  IN  /\ scan.log # << >> =>
            /\ scan.log[1].method = "chain_getHeader"
            /\ Len(Asked("chain_getHeader")) = 1
      /\ IsPrefix(Asked("chain_getBlockHash"), Descending(h, f))
      /\ IsPrefix(Asked("chain_getBlock"), Asked("chain_getBlockHash"))
      /\ Len(Asked("chain_getBlockHash")) <= 500
      /\ \A j \in 2..(Len(scan.log) - 10) :
           \E k \in (j + 1)..(j + 10) : scan.log[k].method # scan.log[j].method
      /\ (ScanReturned /\ lpointer = Null) =>
            /\ Asked("chain_getBlockHash") = Descending(h, f)
            /\ Asked("chain_getBlock") = Descending(h, f)
            /\ h = 0 => Len(scan.log) = 1

\* A scan of a chain higher than the limit found nothing: it asked about
\* 500 blocks and stopped above the floor.
C31_Witness ==
  /\ ScanReturned
  /\ lpointer = Null
  /\ Len(chain) = SCAN_BLOCK_LIMIT + MaxOver
  /\ Len(Asked("chain_getBlock")) = 500
  /\ ReqBlock(scan.log[Len(scan.log)]) = MaxOver + 1


(***************************************************************************)
(* C32: the shared client under a submission in flight                     *)
(***************************************************************************)

\* The call waits for the finalization of its store or of its pointer
\* transaction.
AwaitsFinalization == spc \in {"store", "remark"}

\* C32: while a submission waits for the finalization of a transaction, the
\* client it obtained is alive.  Every submission gets the singleton's
\* client when it starts and only resetBulletinApi takes it out of the
\* singleton, destroying it; so the client of the waiting call is alive as
\* long as it still is the singleton's.
C32_ClientAliveInFlight ==
  AwaitsFinalization => (bulletinClient # 0 /\ bulletinClient \notin clients.destroyed)


(***************************************************************************)
(* C33: cancellation and the retry                                         *)
(***************************************************************************)

\* C33: once a scan has thrown AbortError the call has rejected with it: no
\* scan follows, no socket was opened beyond that scan's and no request was
\* sent after it.
C33_AbortSkipsRetry ==
  \A i \in 1..Len(lhist.scans) :
    lhist.scans[i].outcome = "AbortError" =>
      /\ i = Len(lhist.scans)
      /\ io.ws = i
      /\ scan.ws = "closed"
      /\ lpc = "done"
      /\ lresult = Rejected("AbortError")


(***************************************************************************)
(* C34: whose extrinsic a pointer comes from                               *)
(***************************************************************************)

\* Extrinsic ext of block n reads as the pointer the scan returned.
YieldsPointer(ext, n) ==
  /\ parseExtrinsicForPointer(ext.hex, largs.address, n).ok
  /\ parseExtrinsicForPointer(ext.hex, largs.address, n).val = lpointer

\* C34: the pointer a scan returns for an address was read from an extrinsic
\* that this address signed.
C34_PointerSignedByOwner ==
  (ScanReturned /\ lpointer # Null) =>
    \A i \in 1..Len(chain[lpointer.blockNumber]) :
      YieldsPointer(chain[lpointer.blockNumber][i], lpointer.blockNumber)
        => chain[lpointer.blockNumber][i].signer = largs.address


(***************************************************************************)
(* C35: request ids and the pending map                                    *)
(***************************************************************************)

\* The calls that took a request id.
Numbered == {c \in 1..Len(rpc.calls) : rpc.calls[c].id # 0}

\* C35: request ids grow with every call that takes one and none is used
\* twice; a settled call was settled by a response, an error response, its
\* timer or the close of the socket; the pending map holds exactly the ids
\* of the calls that were sent and are not settled, each with a live timer,
\* and no other call has a live timer.
C35_PendingExact ==
  /\ \A c, d \in Numbered : c < d => rpc.calls[c].id < rpc.calls[d].id
  /\ \A c \in Numbered : rpc.calls[c].id < rpc.idCounter
  /\ \A i, j \in 1..Len(rpc.sent) : i < j => rpc.sent[i].id < rpc.sent[j].id
  /\ \A c \in Numbered :
       rpc.calls[c].stage \in {"resolved", "rejected"} =>
         \/ rpc.calls[c].outcome = Result(rpc.calls[c].id)
         \/ rpc.calls[c].outcome = RpcError("RpcError")
         \/ rpc.calls[c].outcome = RpcError("WebSocket closed")
         \/ rpc.calls[c].outcome = TimeoutError(rpc.calls[c].method, 10000)
  /\ rpc.pending = {rpc.calls[c].id : c \in {d \in Numbered : rpc.calls[d].stage = "pending"}}
  /\ \A c \in 1..Len(rpc.calls) :
       rpc.calls[c].timer = "live" <=> (c \in Numbered /\ rpc.calls[c].stage = "pending")

\* What holds of every call that was sent: it is in the map with a live
\* timer until it is settled, and then neither.
C35_SentCallsExact ==
  \A i \in 1..Len(rpc.sent) :
    LET c == CHOOSE d \in Numbered : rpc.calls[d].id = rpc.sent[i].id
    IN  /\ rpc.calls[c].stage = "pending" <=> rpc.sent[i].id \in rpc.pending
        /\ rpc.calls[c].stage = "pending" <=> rpc.calls[c].timer = "live"

(***************************************************************************)
(* C36: playlist text written and read back                                *)
(***************************************************************************)

\* The fields of a channel that the playlist text carries.
TextFields(ch) ==
  << ch.name, ch.group, ch.logo_url, ch.stream_url >>

\* Every stream URL, and every logo that is not null, is one the sanitizer
\* returns unchanged.
SanitizerValid(channels) ==
  \A i \in 1..Len(channels) :
    /\ sanitizeStreamUrl(channels[i].stream_url) = channels[i].stream_url
    /\ \/ channels[i].logo_url = NullText
       \/ sanitizeUrl(channels[i].logo_url) = channels[i].logo_url

\* C36: parseM3U(serializeToM3U(cs)) has as many channels as cs, with the
\* same name, group, logo_url and stream_url in the same order, whenever the
\* stream URLs and the non-null logos of cs are sanitizer-valid, whatever
\* the names and the groups are.
C36_TextRoundTrip ==
  (conv.pc = "reparsed" /\ SanitizerValid(conv.in)) =>
    /\ Len(conv.out) = Len(conv.in)
    /\ \A i \in 1..Len(conv.in) : TextFields(conv.out[i]) = TextFields(conv.in[i])

\* What holds: the count, the order, the stream URLs and the logos come
\* back; the name comes back when it is not empty and holds no comma, the
\* group when it holds no double quote.
C36_PlainTextRoundTrip ==
  (conv.pc = "reparsed" /\ SanitizerValid(conv.in)) =>
    /\ Len(conv.out) = Len(conv.in)
    /\ \A i \in 1..Len(conv.in) :
         /\ conv.out[i].stream_url = conv.in[i].stream_url
         /\ conv.out[i].logo_url = conv.in[i].logo_url
         /\ (conv.in[i].name # << >> /\ \A k \in 1..Len(conv.in[i].name) : conv.in[i].name[k] # 44)
              => conv.out[i].name = conv.in[i].name
         /\ (\A k \in 1..Len(conv.in[i].group) : conv.in[i].group[k] # 34)
              => conv.out[i].group = conv.in[i].group

(***************************************************************************)
(* C37: channels built from sync messages (SpecSync)                       *)
(***************************************************************************)

\* The channels the hook holds: the one of the incoming transfer and the
\* one acceptTransfer returned.
SyncChannels ==
  {c \in {sync.incomingTransfer.channel : x \in {y \in {1} : sync.incomingTransfer # Null}}
          \cup {sync.accepted} : c # Null}

\* The last message carried a channel whose stream URL the sanitizer rejects.
BadStreamArrived ==
  /\ sync.last # Null
  /\ sync.last.t \in {"transfer", "approved"}
  /\ sanitizeStreamUrl(sync.last.ch.s) = NullText

\* C37: a transfer or approved message whose stream URL fails sanitization
\* is ignored (it sets no incoming transfer, so no channel comes of it), and
\* every channel built from a sync message has a stream URL
\* the sanitizer accepts and a logo_url that is null or one the sanitizer
\* accepts.
C37_SyncUrlInvariant ==
  sync.pc = "on" =>
    /\ BadStreamArrived => ~sync.incomingSet
    /\ \A c \in SyncChannels :
         /\ sanitizeStreamUrl(c.stream_url) = c.stream_url
         /\ c.logo_url = NullText \/ sanitizeUrl(c.logo_url) # NullText

\* What holds: no channel comes of a message whose stream URL fails
\* sanitization, and the stream URL of every channel is sanitizer-valid.
C37_StreamSanitized ==
  sync.pc = "on" =>
    /\ BadStreamArrived => ~sync.incomingSet
    /\ \A c \in SyncChannels : sanitizeStreamUrl(c.stream_url) = c.stream_url

==========================================================================
